---- MODULE Spec2Model ----
(***************************************************************************)
(* The document-line model of the editor (DocLines): the buffer, the       *)
(* folding ranges, the overlays, and the three line vectors (origin lines, *)
(* folded lines, visual lines) that update_lines derives from them.        *)
(*                                                                         *)
(* Text is a sequence over {X, NL}: X is any byte that is not a line       *)
(* break, NL is the line break.  Offsets are byte offsets from 0, lines    *)
(* and columns count from 0 as in the source; TLA+ sequences are indexed   *)
(* from 1, so byte o of a text t is t[o + 1].                              *)
(***************************************************************************)
EXTENDS Integers, Sequences, FiniteSets, TLC

\* ------------------------------------------------------------------ bounds
\* Longest buffer that update_lines and the delta engine are run on, in bytes.
MaxLen == 3
\* Longest buffer of a document in use, in bytes.
MaxDoc == 2
\* Highest buffer revision: every edit advances the revision by one.
MaxRev == 1
\* Most folding ranges in a fold state that update_lines is run on.
MaxFolds == 2
\* Most folding ranges an analysis reports to a document in use.
MaxReported == 1
\* Longest text one edit inserts or removes where edits span several bytes.
MaxIns == 2
\* Widest viewport, in glyphs.
MaxWidth == 2

X == "x"
NL == "nl"
Chars == {X, NL}

Min(a, b) == IF a < b THEN a ELSE b
Max(a, b) == IF a > b THEN a ELSE b

\* All texts of at most n bytes.
Texts(n) == UNION {[1..k -> Chars] : k \in 0..n}

\* ------------------------------------------------------- text storage (rope)
\* Number of line breaks among the first o bytes of t.
NewlinesBefore(t, o) == Cardinality({i \in 1..o : t[i] = NL})

line_of_offset(t, o) == NewlinesBefore(t, Min(o, Len(t)))

buffer_last_line(t) == line_of_offset(t, Len(t))

num_lines(t) == buffer_last_line(t) + 1

\* The offset of the first byte of a line; a line past the last one is
\* clamped to the line after the last, whose offset is the text's length.
offset_of_line(t, line) ==
    LET l == Min(line, buffer_last_line(t) + 1)
    IN  IF l > buffer_last_line(t) THEN Len(t)
        ELSE CHOOSE o \in 0..Len(t) :
                /\ NewlinesBefore(t, o) = l
                /\ \A p \in 0..(o - 1) : NewlinesBefore(t, p) < l

\* Bytes of a line, its line break included.
line_len(t, line) == offset_of_line(t, line + 1) - offset_of_line(t, line)

offset_to_line_col(t, o) ==
    LET l == line_of_offset(t, o)
    IN  <<l, Min(o, Len(t)) - offset_of_line(t, l)>>

\* The offset of a (line, column) pair; the column is clamped to the line.
offset_of_line_col(t, line, col) ==
    LET s == offset_of_line(t, line)
        e == offset_of_line(t, line + 1)
    IN  Min(s + col, e)

offset_of_position(t, pos) == offset_of_line_col(t, pos[1], pos[2])

\* Positions <<line, character>> in lexicographic order.
PosLE(p, q) == p[1] < q[1] \/ (p[1] = q[1] /\ p[2] <= q[2])
PosLT(p, q) == p[1] < q[1] \/ (p[1] = q[1] /\ p[2] < q[2])

\* Buffer::edit restricted to one selection: bytes [from, to) are replaced
\* by ins and the revision advances.
EditText(t, from, to, ins) ==
    SubSeq(t, 1, from) \o ins \o SubSeq(t, to + 1, Len(t))

\* An Option<T> is a sequence of at most one element: <<>> is None.
None == <<>>
Some(v) == <<v>>
IsSome(o) == Len(o) > 0

\* F applied to the value of v, which is computed once.
Let(v, F(_)) == CHOOSE r \in {F(x) : x \in {v}} : TRUE

\* Concatenation of a sequence of sequences.
RECURSIVE Flatten(_)
Flatten(ss) == IF Len(ss) = 0 THEN <<>> ELSE Head(ss) \o Flatten(Tail(ss))

\* ------------------------------------------------------ folding range manager
Expanded == "Expanded"
Collapsed == "Collapsed"

\* FoldingRangeStatus::click: Expanded <-> Collapsed.
click(status) == IF status = Expanded THEN Collapsed ELSE Expanded

\* The collapsed ranges that cover a line, in the manager's order.
get_folded_range_by_line(ranges, line) ==
    SelectSeq(ranges, LAMBDA r : /\ r.status = Collapsed
                                 /\ r.start[1] <= line
                                 /\ line <= r.end[1])

contain_position(folded, pos) ==
    \E i \in 1..Len(folded) :
        PosLE(folded[i].start, pos) /\ PosLE(pos, folded[i].end)

\* Glyphs of the fixed marker that stands for a collapsed span.
FoldMarkerLen == 3
\* Glyphs of an inlay hint (a one-byte label behind a space) and of an
\* error-lens fragment (four spaces before an empty message).
HintTextLen == 2
DiagTextLen == 4
\* DiagnosticSeverity: ERROR = 1 ... HINT = 4.
SeverityError == 1
SeverityHint == 4

\* The placeholder fragments of the collapsed ranges on a line of n bytes: on
\* the line where a range starts, the marker replaces the rest of the line
\* and names the line where the range ends; on the line where it ends, an
\* empty fragment hides the bytes before the range's end.
FoldPhantom(r, line, n) ==
    IF r.start[1] = line
    THEN <<[kind |-> "Fold", line |-> line,
            col |-> Min(r.start[2], n),
            len |-> FoldMarkerLen,
            hide |-> IF r.end[1] = line
                     THEN Max(Min(r.end[2], n) - Min(r.start[2], n), 0)
                     ELSE n - Min(r.start[2], n),
            next_line |-> IF r.end[1] = line THEN None ELSE Some(r.end[1]),
            anchors |-> {}, from |-> "folding_ranges"]>>
    ELSE IF r.end[1] = line
    THEN <<[kind |-> "Fold", line |-> line, col |-> 0, len |-> 0,
            hide |-> Min(r.end[2], n), next_line |-> None,
            anchors |-> {}, from |-> "folding_ranges"]>>
    ELSE <<>>

into_phantom_text(folded, line, n) ==
    Flatten([i \in 1..Len(folded) |-> FoldPhantom(folded[i], line, n)])

\* ------------------------------------------------- phantom / overlay composer
\* The inlay-hint fragments of a line: the hints whose span starts in the line
\* and whose position no collapsed range of the line contains.  The column
\* comes from the span, the filter reads the hint's own position.  The
\* anchors of a fragment are the places of the buffer it is attached to and
\* from is the field of DocLines it was made of; they take no part in the
\* layout.
HintPhantoms(d, line, folded) ==
    LET t == d.buffer.text
        s == offset_of_line(t, line)
        e == offset_of_line(t, line + 1)
        hs == IF d.config.enable_inlay_hints /\ IsSome(d.inlay_hints)
              THEN d.inlay_hints[1] ELSE <<>>
        shown == SelectSeq(hs, LAMBDA h : /\ h.offset >= s
                                          /\ h.offset < e
                                          /\ ~contain_position(folded, h.position))
    IN  [i \in 1..Len(shown) |->
            [kind |-> "InlayHint", line |-> line,
             col |-> offset_to_line_col(t, shown[i].offset)[2],
             len |-> HintTextLen, hide |-> 0, next_line |-> None,
             anchors |-> {offset_to_line_col(t, shown[i].offset)},
             from |-> "inlay_hints"]]

\* The error-lens fragments of a line: the diagnostics whose span ends in the
\* line, more severe than HINT, with neither end of the range in a collapsed
\* range of the line.  Each is anchored at the end of the line.
DiagPhantoms(d, line, folded) ==
    LET t == d.buffer.text
        s == offset_of_line(t, line)
        e == offset_of_line(t, line + 1)
        sp == IF d.config.enable_error_lens THEN d.diagnostics.span ELSE <<>>
        shown == SelectSeq(sp, LAMBDA c :
                    /\ Max(c.start, s) < Min(c.end, e)
                    /\ line_of_offset(t, Min(c.end, e)) = line
                    /\ c.diag.severity < SeverityHint
                    /\ ~contain_position(folded, c.diag.range_start)
                    /\ ~contain_position(folded, c.diag.range_end))
    IN  [i \in 1..Len(shown) |->
            [kind |-> "Diagnostic", line |-> line, col |-> e - s,
             len |-> DiagTextLen, hide |-> 0, next_line |-> None,
             anchors |-> {offset_to_line_col(t, shown[i].start),
                          offset_to_line_col(t, shown[i].end)},
             from |-> "diagnostics"]]

\* A completion lens collected whatever enable_completion_lens says.
CompletionPhantoms_unflagged(d, line, folded) ==
    IF /\ IsSome(d.completion_lens)
       /\ line = d.completion_pos[1]
       /\ ~contain_position(folded, d.completion_pos)
    THEN <<[kind |-> "Completion", line |-> line, col |-> d.completion_pos[2],
            len |-> Len(d.completion_lens[1]), hide |-> 0, next_line |-> None,
            anchors |-> {d.completion_pos}, from |-> "completion_lens"]>>
    ELSE <<>>

\* The completion-lens fragment of a line: the ghost text at completion_pos,
\* unless a collapsed range of the line contains that position.
CompletionPhantoms(d, line, folded) ==
    IF /\ d.config.enable_completion_lens
       /\ IsSome(d.completion_lens)
       /\ line = d.completion_pos[1]
       /\ ~contain_position(folded, d.completion_pos)
    THEN <<[kind |-> "Completion", line |-> line, col |-> d.completion_pos[2],
            len |-> Len(d.completion_lens[1]), hide |-> 0, next_line |-> None,
            anchors |-> {d.completion_pos}, from |-> "completion_lens"]>>
    ELSE <<>>

\* The inline-completion fragment of a line, at the position kept with it.
InlineCompletionPhantoms(d, line, folded) ==
    IF /\ d.config.enable_inline_completion
       /\ IsSome(d.inline_completion)
       /\ line = d.inline_completion[1].line
       /\ ~contain_position(folded, <<d.inline_completion[1].line,
                                      d.inline_completion[1].col>>)
    THEN <<[kind |-> "Completion", line |-> line,
            col |-> d.inline_completion[1].col,
            len |-> Len(d.inline_completion[1].text), hide |-> 0,
            next_line |-> None,
            anchors |-> {<<d.inline_completion[1].line,
                           d.inline_completion[1].col>>},
            from |-> "inline_completion"]>>
    ELSE <<>>

\* util::preedit_phantom: the text being composed, on the line of its offset.
preedit_phantom(d, line) ==
    IF /\ IsSome(d.preedit)
       /\ offset_to_line_col(d.buffer.text,
                Min(d.preedit[1].offset, Len(d.buffer.text)))[1] = line
    THEN LET lc == offset_to_line_col(d.buffer.text,
                        Min(d.preedit[1].offset, Len(d.buffer.text)))
         IN  <<[kind |-> "Preedit", line |-> line, col |-> lc[2],
                len |-> Len(d.preedit[1].text), hide |-> 0,
                next_line |-> None, anchors |-> {lc}, from |-> "preedit"]>>
    ELSE <<>>

\* The fragments of a line with the fold placeholders put first.
phantom_text_folds_first(d, line) ==
    LET t == d.buffer.text
        s == offset_of_line(t, line)
        e == offset_of_line(t, line + 1)
        folded == get_folded_range_by_line(d.folding_ranges, line)
    IN  [line |-> line,
         origin_text_len |-> e - s,
         offset_of_line |-> s,
         text |-> into_phantom_text(folded, line, e - s)
                  \o HintPhantoms(d, line, folded)
                  \o DiagPhantoms(d, line, folded)
                  \o CompletionPhantoms(d, line, folded)
                  \o InlineCompletionPhantoms(d, line, folded)
                  \o preedit_phantom(d, line)]

\* DocLines::phantom_text: the fragments of one origin line in construction
\* order, as a PhantomTextLine.
phantom_text(d, line) ==
    LET t == d.buffer.text
        s == offset_of_line(t, line)
        e == offset_of_line(t, line + 1)
        folded == get_folded_range_by_line(d.folding_ranges, line)
    IN  [line |-> line,
         origin_text_len |-> e - s,
         offset_of_line |-> s,
         text |-> HintPhantoms(d, line, folded)
                  \o DiagPhantoms(d, line, folded)
                  \o CompletionPhantoms(d, line, folded)
                  \o InlineCompletionPhantoms(d, line, folded)
                  \o preedit_phantom(d, line)
                  \o into_phantom_text(folded, line, e - s)]

\* PhantomTextLine::folded_line: the line where the unit continues, when a
\* collapsed range starts on this line and ends on a later one.
folded_line(ptl) ==
    LET nexts == {ptl.text[i].next_line[1] :
                    i \in {j \in 1..Len(ptl.text) : IsSome(ptl.text[j].next_line)}}
    IN  IF nexts = {} THEN None
        ELSE Some(CHOOSE m \in nexts : \A k \in nexts : k <= m)

\* Whether a collapsed span hides column c of the line.
Hidden(ptl, c) ==
    \E i \in 1..Len(ptl.text) :
        /\ ptl.text[i].kind = "Fold"
        /\ ptl.text[i].col <= c
        /\ c < ptl.text[i].col + ptl.text[i].hide

\* The glyphs of a fragment: each remembers the fragment it belongs to.
PhantomCells(p) ==
    [i \in 1..p.len |-> [kind |-> p.kind, line |-> p.line, col |-> p.col]]

\* The composed text of one line from column c on: at each column first the
\* fragments anchored there, in order, then the origin byte unless it is
\* hidden (the line break shows as a space and keeps its column).
RECURSIVE CellsFrom(_, _)
CellsFrom(ptl, c) ==
    LET n == ptl.origin_text_len
        here == SelectSeq(ptl.text, LAMBDA p : Min(p.col, n) = c)
        frag == Flatten([i \in 1..Len(here) |-> PhantomCells(here[i])])
    IN  IF c >= n THEN frag
        ELSE frag
             \o (IF Hidden(ptl, c) THEN <<>>
                 ELSE <<[kind |-> "Origin", line |-> ptl.line, col |-> c]>>)
             \o CellsFrom(ptl, c + 1)

final_line_content(ptl) == CellsFrom(ptl, 0)

\* PhantomTextMultiLine::new and ::merge: the fragments and the composed text
\* of a unit of merged origin lines.
NewMultiLine(ptl) ==
    [line |-> ptl.line, last_line |-> ptl.line,
     origin_text_len |-> ptl.origin_text_len,
     text |-> ptl.text, cells |-> final_line_content(ptl)]

merge(multi, ptl) ==
    [multi EXCEPT !.last_line = ptl.line,
                  !.origin_text_len = @ + ptl.origin_text_len,
                  !.text = @ \o ptl.text,
                  !.cells = @ \o final_line_content(ptl)]

\* The inverse mapping: the origin (line, column) of a composed column.  A
\* glyph of a fragment maps to the fragment's anchor; a column past the
\* composed text maps like its last glyph; an empty unit maps to its start.
cursor_position_of_final_col(multi, c) ==
    IF Len(multi.cells) = 0 THEN <<multi.line, 0>>
    ELSE LET cell == multi.cells[Min(c, Len(multi.cells) - 1) + 1]
         IN  <<cell.line, cell.col>>

\* ------------------------------------------------------------ text shaping
\* The wrap width in glyphs, 0 when lines are not wrapped.
WrapWidth(d) ==
    CASE d.editor_style.wrap_method.kind = "None" -> 0
      [] d.editor_style.wrap_method.kind = "EditorWidth" -> d.viewport.width
      [] d.editor_style.wrap_method.kind = "WrapWidth" ->
            d.editor_style.wrap_method.width

\* The shaped line's wrap segments as glyph counts: an empty text has one
\* segment without glyphs.
RECURSIVE line_layout(_, _)
line_layout(n, w) ==
    IF w = 0 \/ n <= w THEN <<n>> ELSE <<w>> \o line_layout(n - w, w)

\* DocLines::new_text_layout: composes the unit that starts at a line,
\* following the chain of collapsed ranges, and shapes it.
RECURSIVE MergeCollapsed(_, _, _)
MergeCollapsed(d, multi, collapsed_line_col) ==
    IF ~IsSome(collapsed_line_col) THEN multi
    ELSE Let(phantom_text(d, collapsed_line_col[1]),
             LAMBDA next_phantom_text :
                Let(merge(multi, next_phantom_text),
                    LAMBDA merged :
                        Let(folded_line(next_phantom_text),
                            LAMBDA next : MergeCollapsed(d, merged, next))))

new_text_layout(d, line) ==
    Let(phantom_text(d, line),
        LAMBDA ptl :
            Let(MergeCollapsed(d, NewMultiLine(ptl), folded_line(ptl)),
                LAMBDA multi :
                    [phantom_text |-> multi,
                     layout |-> line_layout(Len(multi.cells), WrapWidth(d))]))

\* --------------------------------------------------------------- update_lines
Interval(s, e) == [start |-> s, end |-> e]

clear(d) ==
    [d EXCEPT !.origin_lines = <<>>, !.origin_folded_lines = <<>>,
              !.visual_lines = <<>>, !.last_line = 0]

\* The origin lines pushed for one unit: one per merged line, each with the
\* start offset of the unit's first line.
PushOriginLines(origin_line_start, origin_line_end, start_offset) ==
    [i \in 1..(origin_line_end - origin_line_start + 1) |->
        [line_index |-> origin_line_start + i - 1,
         start_offset |-> start_offset]]

\* A unit's origin interval that stops at the start of its last line.
FoldedOriginInterval_short(t, origin_line_start, origin_line_end) ==
    Interval(offset_of_line(t, origin_line_start),
             offset_of_line(t, origin_line_end))

\* The origin interval of a unit.
FoldedOriginInterval(t, origin_line_start, origin_line_end) ==
    Interval(offset_of_line(t, origin_line_start),
             offset_of_line(t, origin_line_end + 1))

\* Where the next wrap segment starts, given where this one ended.
NextVisualOffsetStart(visual_offset_end) == visual_offset_end

\* A segment's end taken one column too far.
VisualOffsetEnd_past(visual_offset_start, glyphs) ==
    visual_offset_start + glyphs

\* The composed column of the last glyph of a segment.
VisualOffsetEnd(visual_offset_start, glyphs) ==
    visual_offset_start + glyphs - 1

\* A visual index that stays where it is after a segment.
NextVisualLineIndex_same(visual_line_index) == visual_line_index

\* The visual index after a segment with glyphs.
NextVisualLineIndex(visual_line_index) == visual_line_index + 1

\* Every segment numbered as the first.
SubIndexOf_first(k) == 0

\* The sub-index of the visual line of segment k with glyphs: its place in
\* the enumeration of the shaped line's segments.
SubIndexOf(k) == k

\* The visual lines of one unit: the loop over the shaped line's segments
\* from segment k on.  Returns the lines pushed and the next visual index.
RECURSIVE VisualLinesOf(_, _, _, _, _, _, _)
VisualLinesOf(t, text_layout, origin_interval, folded_index, k, visual_offset_start, visual_line_index) ==
    IF k >= Len(text_layout.layout)
    THEN [lines |-> <<>>, visual_line_index |-> visual_line_index]
    ELSE
    LET glyphs == text_layout.layout[k + 1]
        pt     == text_layout.phantom_text
    IN  IF glyphs = 0
        THEN LET rest == VisualLinesOf(t, text_layout, origin_interval,
                            folded_index, k + 1, visual_offset_start,
                            visual_line_index)
             IN  [rest EXCEPT !.lines =
                    <<[line_index |-> visual_line_index,
                       origin_interval |->
                           Interval(origin_interval.end, origin_interval.end),
                       visual_interval |->
                           Interval(visual_offset_start, visual_offset_start),
                       origin_line |-> pt.line,
                       origin_folded_line |-> folded_index,
                       origin_folded_line_sub_index |-> 0]>> \o @]
        ELSE LET visual_offset_end == VisualOffsetEnd(visual_offset_start, glyphs)
                 first == cursor_position_of_final_col(pt, visual_offset_start)
                 last  == cursor_position_of_final_col(pt, visual_offset_end)
                 origin_interval_start == offset_of_line(t, first[1]) + first[2]
                 origin_interval_end   == offset_of_line(t, last[1]) + last[2]
                 rest == VisualLinesOf(t, text_layout, origin_interval,
                            folded_index, k + 1,
                            NextVisualOffsetStart(visual_offset_end),
                            NextVisualLineIndex(visual_line_index))
             IN  [rest EXCEPT !.lines =
                    <<[line_index |-> visual_line_index,
                       origin_interval |->
                           Interval(origin_interval_start,
                                    origin_interval_end + 1),
                       visual_interval |->
                           Interval(visual_offset_start, visual_offset_end + 1),
                       origin_line |-> pt.line,
                       origin_folded_line |-> folded_index,
                       origin_folded_line_sub_index |-> SubIndexOf(k)]>> \o @]

\* A loop that is never entered.
LinesLeft_none(current_line, last_line) == FALSE

\* A loop that stops before the last line.
LinesLeft_before_last(current_line, last_line) == current_line < last_line

\* The condition of the outer loop of update_lines.
LinesLeft(current_line, last_line) == current_line <= last_line

\* The outer loop of update_lines from current_line on, with its two
\* running indices.
RECURSIVE UpdateLinesFrom(_, _, _, _)
UpdateLinesFrom(d, current_line, origin_folded_line_index, visual_line_index) ==
    IF ~LinesLeft(current_line, buffer_last_line(d.buffer.text)) THEN d
    ELSE
    LET t == d.buffer.text
        start_offset == offset_of_line(t, current_line)
        Unit(text_layout, vls) ==
            [d EXCEPT
                !.origin_lines = @ \o PushOriginLines(
                    text_layout.phantom_text.line,
                    text_layout.phantom_text.last_line, start_offset),
                !.visual_lines = @ \o vls.lines,
                !.origin_folded_lines = Append(@,
                    [line_index |-> origin_folded_line_index,
                     origin_line_start |-> text_layout.phantom_text.line,
                     origin_line_end |-> text_layout.phantom_text.last_line,
                     origin_interval |->
                        FoldedOriginInterval(t, text_layout.phantom_text.line,
                            text_layout.phantom_text.last_line),
                     text_layout |-> text_layout])]
    IN  Let(new_text_layout(d, current_line),
            LAMBDA text_layout :
              Let(VisualLinesOf(t, text_layout,
                      FoldedOriginInterval(t, text_layout.phantom_text.line,
                          text_layout.phantom_text.last_line),
                      origin_folded_line_index, 0, 0, visual_line_index),
                  LAMBDA vls :
                    Let(Unit(text_layout, vls),
                        LAMBDA pushed :
                            UpdateLinesFrom(pushed,
                                text_layout.phantom_text.last_line + 1,
                                origin_folded_line_index + 1,
                                vls.visual_line_index))))

update_lines(d) ==
    Let(clear(d), LAMBDA cleared : UpdateLinesFrom(cleared, 0, 0, 0))

\* ------------------------------------------------------------ DocLines state
VARIABLES
    buffer,              \* [text, rev]
    folding_ranges,      \* sequence of [start, end, status]
    inlay_hints,         \* Option of a sequence of [offset, position]
    diagnostics,         \* [diagnostics: the list, span: their byte spans]
    config,              \* [enable_inlay_hints, enable_error_lens]
    editor_style,        \* [wrap_method]
    viewport,            \* [y0, width]
    syntax,              \* the syntax analysis in use
    semantic_styles,     \* Option of the semantic styles in use
    line_styles,         \* the per-line styles, by the analysis they came from
    style_from_lsp,
    completion_lens,     \* Option of the ghost text
    completion_pos,      \* <<line, col>> of the completion lens
    inline_completion,   \* Option of [text, line, col]
    preedit,             \* Option of [text, offset]
    origin_lines,
    origin_folded_lines,
    visual_lines,
    last_line,
    call,                \* the last operation: its name, arguments, result
    fold_probe,          \* the visual lines before a range was clicked
    lines_delta          \* Option of the delta plan of the edit in progress

vars == <<buffer, folding_ranges, inlay_hints, diagnostics, config,
          editor_style, viewport, syntax, semantic_styles, line_styles,
          style_from_lsp, completion_lens, completion_pos, inline_completion,
          preedit, origin_lines, origin_folded_lines, visual_lines,
          last_line, call, fold_probe, lines_delta>>

\* The DocLines value held by the variables; ret is what the operation in
\* progress returns, rebuilt whether it has run update_lines, steps the
\* rebuilds and recomputations it has run, in order.
Self ==
    [buffer |-> buffer, folding_ranges |-> folding_ranges,
     inlay_hints |-> inlay_hints, diagnostics |-> diagnostics,
     config |-> config, editor_style |-> editor_style, viewport |-> viewport,
     syntax |-> syntax, semantic_styles |-> semantic_styles,
     line_styles |-> line_styles, style_from_lsp |-> style_from_lsp,
     completion_lens |-> completion_lens, completion_pos |-> completion_pos,
     inline_completion |-> inline_completion, preedit |-> preedit,
     origin_lines |-> origin_lines,
     origin_folded_lines |-> origin_folded_lines,
     visual_lines |-> visual_lines, last_line |-> last_line,
     ret |-> TRUE, rebuilt |-> FALSE, steps |-> <<>>]

\* The operation's result becomes the next state.
Commit(d) ==
    /\ buffer' = d.buffer
    /\ folding_ranges' = d.folding_ranges
    /\ inlay_hints' = d.inlay_hints
    /\ diagnostics' = d.diagnostics
    /\ config' = d.config
    /\ editor_style' = d.editor_style
    /\ viewport' = d.viewport
    /\ syntax' = d.syntax
    /\ semantic_styles' = d.semantic_styles
    /\ line_styles' = d.line_styles
    /\ style_from_lsp' = d.style_from_lsp
    /\ completion_lens' = d.completion_lens
    /\ completion_pos' = d.completion_pos
    /\ inline_completion' = d.inline_completion
    /\ preedit' = d.preedit
    /\ origin_lines' = d.origin_lines
    /\ origin_folded_lines' = d.origin_folded_lines
    /\ visual_lines' = d.visual_lines
    /\ last_line' = d.last_line

\* ---------------------------------------------------------------- operations
\* update_lines as the operations run it.
RunUpdateLines(d) ==
    [update_lines(d) EXCEPT !.rebuilt = TRUE,
                            !.steps = Append(@, "update_lines")]

\* trigger_screen_lines: screen_lines is recomputed from the visual lines.
trigger_screen_lines(d) ==
    [d EXCEPT !.steps = Append(@, "trigger_screen_lines")]

\* trigger_folding_items: folding_items is recomputed from screen_lines.
trigger_folding_items(d) ==
    [d EXCEPT !.steps = Append(@, "trigger_folding_items")]

trigger_last_line(d, new_last_line) ==
    IF d.last_line # new_last_line
    THEN [d EXCEPT !.last_line = new_last_line] ELSE d

update_with_trigger_buffer(d) ==
    Let(RunUpdateLines(d),
        LAMBDA d1 :
            trigger_last_line(trigger_folding_items(trigger_screen_lines(d1)),
                              buffer_last_line(d1.buffer.text) + 1))

update(d) == update_with_trigger_buffer(d)

\* init_diagnostics_with_buffer: the spans of the diagnostics in the buffer.
init_diagnostics_with_buffer(d) ==
    LET t == d.buffer.text
        ds == d.diagnostics.diagnostics
    IN  [d EXCEPT !.diagnostics.span =
            [i \in 1..Len(ds) |->
                [start |-> offset_of_position(t, ds[i].range_start),
                 end |-> offset_of_position(t, ds[i].range_end),
                 diag |-> ds[i]]]]

on_update_buffer(d) == init_diagnostics_with_buffer(d)

\* Where a byte offset lands after bytes [from, to) became k bytes; a span
\* that started among the replaced bytes is dropped.
ShiftOffset(o, from, to, k) == IF o < from THEN o ELSE o + k - (to - from)

\* update_inlay_hints: the hint spans follow the edit, the hints do not.
update_inlay_hints(d, from, to, k) ==
    IF ~IsSome(d.inlay_hints) THEN d
    ELSE LET kept == SelectSeq(d.inlay_hints[1],
                        LAMBDA h : h.offset < from \/ h.offset >= to)
         IN  [d EXCEPT !.inlay_hints = Some(
                [i \in 1..Len(kept) |->
                    [kept[i] EXCEPT !.offset = ShiftOffset(@, from, to, k)]])]

\* update_diagnostics: the diagnostic spans follow the edit.
update_diagnostics(d, from, to, k) ==
    IF Len(d.diagnostics.diagnostics) = 0 THEN d
    ELSE LET shifted == [i \in 1..Len(d.diagnostics.span) |->
                [d.diagnostics.span[i] EXCEPT
                    !.start = IF @ < from THEN @
                              ELSE IF @ < to THEN from + k
                              ELSE @ + k - (to - from),
                    !.end = IF @ <= from THEN @
                            ELSE IF @ <= to THEN from
                            ELSE @ + k - (to - from)]]
         IN  [d EXCEPT !.diagnostics.span =
                SelectSeq(shifted, LAMBDA c : c.start < c.end)]

\* Transformer::transform(offset, true): where an offset lands after bytes
\* [from, to) became k bytes, an offset at the edit moving behind it.
transform(o, from, to, k) ==
    IF o < from THEN o
    ELSE IF o < to THEN from + k
    ELSE o + k - (to - from)

\* update_completion_lens: typing at the lens eats the typed count of its
\* bytes; its position follows the edit.
update_completion_lens(d, from, to, k) ==
    IF ~IsSome(d.completion_lens) THEN d
    ELSE LET t == d.buffer.text
             completion == d.completion_lens[1]
             offset == offset_of_line_col(t, d.completion_pos[1],
                                          d.completion_pos[2])
             new_offset == transform(offset, from, to, k)
         IN  [d EXCEPT
                !.completion_lens =
                    IF from = to /\ from = offset /\ k <= Len(completion)
                    THEN Some(SubSeq(completion, k + 1, Len(completion)))
                    ELSE @,
                !.completion_pos =
                    offset_to_line_col(t, Min(new_offset, Len(t)))]

apply_delta(d, from, to, k) ==
    Let(update_diagnostics(d, from, to, k),
        LAMBDA d1 :
            Let(update_inlay_hints(d1, from, to, k),
                LAMBDA d2 : update_completion_lens(d2, from, to, k)))

init_buffer(d, content) ==
    Let([d EXCEPT !.buffer.text = content,
                  !.buffer.rev = IF Len(content) = 0 THEN @ ELSE @ + 1],
        LAMBDA d1 : Let(on_update_buffer(d1), LAMBDA d2 : update(d2)))

edit_buffer(d, from, to, ins) ==
    Let([d EXCEPT !.buffer.text = EditText(@, from, to, ins),
                  !.buffer.rev = @ + 1],
        LAMBDA d1 :
            Let(apply_delta(d1, from, to, Len(ins)),
                LAMBDA d2 :
                    Let(on_update_buffer(d2),
                        LAMBDA d3 : update_with_trigger_buffer(d3))))

reload_buffer(d, content) ==
    edit_buffer(d, 0, Len(d.buffer.text), content)

set_line_ending(d, line_ending) ==
    Let(on_update_buffer([d EXCEPT !.buffer.line_ending = line_ending]),
        LAMBDA d1 : update(d1))

update_config(d, c) ==
    IF d.config # c
    THEN Let([d EXCEPT !.config = c], LAMBDA d1 : update(d1)) ELSE d

update_viewport_by_scroll(d, vp) ==
    IF d.viewport # vp
    THEN trigger_folding_items(trigger_screen_lines([d EXCEPT !.viewport = vp]))
    ELSE d

update_editor_style(d, style) ==
    LET updated == d.editor_style # style
    IN  Let([d EXCEPT !.editor_style = style, !.ret = updated],
            LAMBDA d1 : IF updated THEN RunUpdateLines(d1) ELSE d1)

\* FoldingRanges::update_folding_item: the first range whose boundary is the
\* clicked icon's position is clicked (its start for a start or folded icon,
\* its end for an end icon).
FirstIndex(hits) ==
    IF hits = {} THEN 0 ELSE CHOOSE i \in hits : \A j \in hits : i <= j

update_folding_item(ranges, item) ==
    LET i == IF item.ty = "UnfoldEnd"
             THEN FirstIndex({k \in 1..Len(ranges) : ranges[k].end = item.position})
             ELSE FirstIndex({k \in 1..Len(ranges) : ranges[k].start = item.position})
    IN  IF i = 0 THEN ranges
        ELSE [ranges EXCEPT ![i].status = click(@)]

\* FoldingRanges::update_ranges: a fresh range set; a range that was already
\* there keeps its status, a new one is expanded.
update_ranges(ranges, new) ==
    [i \in 1..Len(new) |->
        LET j == FirstIndex({k \in 1..Len(ranges) :
                                /\ ranges[k].start = new[i].start
                                /\ ranges[k].end = new[i].end})
        IN  [start |-> new[i].start, end |-> new[i].end,
             status |-> IF j = 0 THEN Expanded ELSE ranges[j].status]]

\* FoldingRanges::update_by_phantom: the range that contains the clicked
\* placeholder's position is expanded.
update_by_phantom(ranges, position) ==
    LET i == FirstIndex({k \in 1..Len(ranges) :
                            /\ PosLE(ranges[k].start, position)
                            /\ PosLE(position, ranges[k].end)})
    IN  IF i = 0 THEN ranges
        ELSE [ranges EXCEPT ![i].status = Expanded]

update_folding_ranges(d, action) ==
    LET r == d.folding_ranges
        r1 == CASE action.kind = "UpdateByItem" ->
                        update_folding_item(r, action.item)
                [] action.kind = "New" -> update_ranges(r, action.ranges)
                [] action.kind = "UpdateByPhantom" ->
                        update_by_phantom(r, action.position)
    IN  Let([d EXCEPT !.folding_ranges = r1], LAMBDA d1 : update(d1))

set_completion_lens(d, completion, line, col) ==
    Let([d EXCEPT !.completion_lens = Some(completion),
                  !.completion_pos = <<line, col>>],
        LAMBDA d1 : update(d1))

clear_completion_lens(d) ==
    Let([d EXCEPT !.completion_lens = None], LAMBDA d1 : update(d1))

set_inline_completion(d, completion, line, col) ==
    Let([d EXCEPT !.inline_completion =
                    Some([text |-> completion, line |-> line, col |-> col])],
        LAMBDA d1 : update(d1))

clear_inline_completion(d) ==
    Let([d EXCEPT !.inline_completion = None], LAMBDA d1 : update(d1))

set_inlay_hints(d, inlay_hint) ==
    Let([d EXCEPT !.inlay_hints = Some(inlay_hint)], LAMBDA d1 : update(d1))

\* init_diagnostics, with the diagnostics the server has just published.
init_diagnostics(d, published) ==
    Let(init_diagnostics_with_buffer(
            [d EXCEPT !.diagnostics.diagnostics = published]),
        LAMBDA d1 : update(d1))

\* update_semantic_styles that stores the styles whatever their revision.
update_semantic_styles_any_rev(d, styles, rev) ==
    Let([d EXCEPT !.semantic_styles = Some(styles)],
        LAMBDA d1 : [update(d1) EXCEPT !.ret = TRUE])

update_semantic_styles(d, styles, rev) ==
    IF d.buffer.rev # rev THEN [d EXCEPT !.ret = FALSE]
    ELSE Let([d EXCEPT !.semantic_styles = Some(styles)],
             LAMBDA d1 : [update(d1) EXCEPT !.ret = TRUE])

\* set_syntax: the per-line styles are rebuilt from the new analysis.
set_syntax(d, new_syntax) ==
    Let([d EXCEPT !.syntax = new_syntax],
        LAMBDA d1 :
            IF d1.style_from_lsp THEN [d1 EXCEPT !.ret = FALSE]
            ELSE Let([d1 EXCEPT !.line_styles =
                        IF new_syntax.styles THEN {new_syntax.id} ELSE {}],
                     LAMBDA d2 : [update(d2) EXCEPT !.ret = TRUE]))

set_syntax_with_rev(d, new_syntax, rev) ==
    IF d.buffer.rev # rev THEN [d EXCEPT !.ret = FALSE]
    ELSE set_syntax(d, new_syntax)

update_semantic_styles_from_lsp(d, styles) ==
    Let([d EXCEPT !.style_from_lsp = TRUE, !.line_styles = @ \cup {styles}],
        LAMBDA d1 : update(d1))

\* ------------------------------------------------------------------- inputs
\* The positions of a text: one per byte offset.
Positions(t) == {offset_to_line_col(t, o) : o \in 0..Len(t)}

\* The folding ranges an analysis of the text may report.
FoldRangesOver(t) ==
    {[start |-> p, end |-> q] : p \in Positions(t), q \in Positions(t)}
        \cap {r \in [start : Positions(t), end : Positions(t)] :
                 r.start[1] < r.end[1]}

\* The range lists, ordered by start, that an analysis may report.
RangeLists(t, most) ==
    {rs \in UNION {[1..k -> FoldRangesOver(t)] : k \in 0..most} :
        \A i \in 1..(Len(rs) - 1) : PosLT(rs[i].start, rs[i + 1].start)}

WrapMethods ==
    {[kind |-> "None", width |-> 0], [kind |-> "EditorWidth", width |-> 0]}
        \cup {[kind |-> "WrapWidth", width |-> w] : w \in 1..MaxWidth}

Viewports == {[y0 |-> 0, width |-> w] : w \in 1..MaxWidth}

Configs ==
    [enable_inlay_hints : BOOLEAN, enable_error_lens : BOOLEAN,
     enable_completion_lens : BOOLEAN, enable_inline_completion : BOOLEAN]

\* The icons shown for the folding ranges: a start and an end icon for an
\* expanded range, a folded icon at the start of a collapsed one.
DisplayItems(ranges) ==
    UNION {IF ranges[i].status = Collapsed
           THEN {[ty |-> "Folded", position |-> ranges[i].start]}
           ELSE {[ty |-> "UnfoldStart", position |-> ranges[i].start],
                 [ty |-> "UnfoldEnd", position |-> ranges[i].end]}
           : i \in 1..Len(ranges)}

\* The range an icon's click reaches (0 when none).
ClickedIndex(ranges, item) ==
    IF item.ty = "UnfoldEnd"
    THEN FirstIndex({k \in 1..Len(ranges) : ranges[k].end = item.position})
    ELSE FirstIndex({k \in 1..Len(ranges) : ranges[k].start = item.position})

NoProbe == [phase |-> 0, index |-> 0, vis |-> <<>>]

\* Records the call; the operations of DocLines leave no delta plan behind.
Called(op, stale, d) ==
    /\ call' = [op |-> op, stale |-> stale, ret |-> d.ret,
                rebuilt |-> d.rebuilt, steps |-> d.steps]
    /\ lines_delta' = lines_delta

\* ---------------------------------------------------------------- DocLines::new
NewDocLines(text, style, vp, cfg) ==
    update_lines(
        [buffer |-> [text |-> text, rev |-> 0, line_ending |-> "Lf"],
         folding_ranges |-> <<>>,
         inlay_hints |-> None,
         diagnostics |-> [diagnostics |-> <<>>, span |-> <<>>],
         config |-> cfg, editor_style |-> [wrap_method |-> style],
         viewport |-> vp,
         syntax |-> [id |-> "syn0", styles |-> FALSE],
         semantic_styles |-> None,
         line_styles |-> {},
         style_from_lsp |-> FALSE,
         completion_lens |-> None, completion_pos |-> <<0, 0>>,
         inline_completion |-> None, preedit |-> None,
         origin_lines |-> <<>>, origin_folded_lines |-> <<>>,
         visual_lines |-> <<>>,
         last_line |-> buffer_last_line(text) + 1,
         ret |-> TRUE, rebuilt |-> FALSE, steps |-> <<>>])

\* The variables hold the DocLines value d.
Holds(d) ==
    /\ buffer = d.buffer
    /\ folding_ranges = d.folding_ranges
    /\ inlay_hints = d.inlay_hints
    /\ diagnostics = d.diagnostics
    /\ config = d.config
    /\ editor_style = d.editor_style
    /\ viewport = d.viewport
    /\ syntax = d.syntax
    /\ semantic_styles = d.semantic_styles
    /\ line_styles = d.line_styles
    /\ style_from_lsp = d.style_from_lsp
    /\ completion_lens = d.completion_lens
    /\ completion_pos = d.completion_pos
    /\ inline_completion = d.inline_completion
    /\ preedit = d.preedit
    /\ origin_lines = d.origin_lines
    /\ origin_folded_lines = d.origin_folded_lines
    /\ visual_lines = d.visual_lines
    /\ last_line = d.last_line

AllOn ==
    [enable_inlay_hints |-> TRUE, enable_error_lens |-> TRUE,
     enable_completion_lens |-> TRUE, enable_inline_completion |-> TRUE]

InitWith(texts, styles, vps, cfgs) ==
    \E text \in texts, style \in styles, vp \in vps, cfg \in cfgs :
        /\ \E d \in {NewDocLines(text, style, vp, cfg)} : Holds(d)
        /\ call = [op |-> "new", stale |-> FALSE, ret |-> TRUE,
                   rebuilt |-> TRUE]
        /\ fold_probe = NoProbe
        /\ lines_delta = None

\* ------------------------------------------------------------------ actions
InitBuffer ==
    \E content \in Texts(MaxDoc) :
        /\ buffer.rev < MaxRev
        /\ \E d \in {init_buffer(Self, content)} :
            Commit(d) /\ Called("init_buffer", FALSE, d)
        /\ fold_probe' = NoProbe

EditBuffer ==
    \E from \in 0..Len(buffer.text), ins \in Texts(1) :
      \E to \in from..Len(buffer.text) :
        /\ buffer.rev < MaxRev
        /\ to - from <= 1
        /\ to > from \/ Len(ins) > 0
        /\ Len(buffer.text) - (to - from) + Len(ins) <= MaxDoc
        /\ \E d \in {edit_buffer(Self, from, to, ins)} :
            Commit(d) /\ Called("edit_buffer", FALSE, d)
        /\ fold_probe' = NoProbe

UpdateFoldingNew ==
    \E ranges \in RangeLists(buffer.text, MaxReported) :
        /\ \E d \in {update_folding_ranges(Self,
                        [kind |-> "New", ranges |-> ranges])} :
            Commit(d) /\ Called("update_folding_ranges", FALSE, d)
        /\ fold_probe' = NoProbe

\* A click on a range's icon.  The probe remembers the visual lines from
\* before an expanded range was clicked, until the same range is clicked
\* again.
UpdateFoldingByItem ==
    \E item \in DisplayItems(folding_ranges) :
      \E i \in {ClickedIndex(folding_ranges, item)} :
        /\ \E d \in {update_folding_ranges(Self,
                        [kind |-> "UpdateByItem", item |-> item])} :
            Commit(d) /\ Called("update_folding_ranges", FALSE, d)
        /\ fold_probe' =
            IF /\ fold_probe.phase = 1
               /\ fold_probe.index = i
               /\ folding_ranges[i].status = Collapsed
            THEN [fold_probe EXCEPT !.phase = 2]
            ELSE IF folding_ranges[i].status = Expanded
            THEN [phase |-> 1, index |-> i, vis |-> visual_lines]
            ELSE NoProbe

\* A click on the placeholder of a collapsed range.
UpdateFoldingByPhantom ==
    \E i \in 1..Len(folding_ranges) :
      \E j \in {FirstIndex({k \in 1..Len(folding_ranges) :
                    /\ PosLE(folding_ranges[k].start, folding_ranges[i].start)
                    /\ PosLE(folding_ranges[i].start, folding_ranges[k].end)})} :
        /\ folding_ranges[i].status = Collapsed
        /\ \E d \in {update_folding_ranges(Self,
                        [kind |-> "UpdateByPhantom",
                         position |-> folding_ranges[i].start])} :
            Commit(d) /\ Called("update_folding_ranges", FALSE, d)
        /\ fold_probe' =
            IF /\ fold_probe.phase = 1
               /\ fold_probe.index = j
               /\ folding_ranges[j].status = Collapsed
            THEN [fold_probe EXCEPT !.phase = 2]
            ELSE NoProbe

UpdateViewportByScroll ==
    \E vp \in Viewports :
        /\ \E d \in {update_viewport_by_scroll(Self, vp)} :
            Commit(d) /\ Called("update_viewport_by_scroll", FALSE, d)
        /\ fold_probe' = NoProbe

UpdateEditorStyle ==
    \E style \in WrapMethods :
        /\ \E d \in {update_editor_style(Self, [wrap_method |-> style])} :
            Commit(d) /\ Called("update_editor_style", FALSE, d)
        /\ fold_probe' = NoProbe

Init == InitWith(Texts(MaxDoc), WrapMethods, Viewports, {AllOn})

Next ==
    \/ InitBuffer
    \/ EditBuffer
    \/ UpdateFoldingNew
    \/ UpdateFoldingByItem
    \/ UpdateFoldingByPhantom
    \/ UpdateViewportByScroll
    \/ UpdateEditorStyle

Spec == Init /\ [][Next]_vars

\* ------------------------------------------------ styles tagged with a revision
\* The analyses a client may deliver: semantic styles and syntaxes, with or
\* without styles of their own.
SemanticStyles == {"s1"}
Syntaxes == [id : {"syn1"}, styles : BOOLEAN]

UpdateSemanticStyles ==
    \E styles \in SemanticStyles, rev \in 0..MaxRev :
        /\ \E d \in {update_semantic_styles(Self, styles, rev)} :
            Commit(d)
            /\ Called("update_semantic_styles", rev # buffer.rev, d)
        /\ fold_probe' = NoProbe

SetSyntaxWithRev ==
    \E new_syntax \in Syntaxes, rev \in 0..MaxRev :
        /\ \E d \in {set_syntax_with_rev(Self, new_syntax, rev)} :
            Commit(d) /\ Called("set_syntax_with_rev", rev # buffer.rev, d)
        /\ fold_probe' = NoProbe

UpdateSemanticStylesFromLsp ==
    \E styles \in SemanticStyles :
        /\ \E d \in {update_semantic_styles_from_lsp(Self, styles)} :
            Commit(d) /\ Called("update_semantic_styles_from_lsp", FALSE, d)
        /\ fold_probe' = NoProbe

ReloadBuffer ==
    \E content \in Texts(1) :
        /\ buffer.rev < MaxRev
        /\ \E d \in {reload_buffer(Self, content)} :
            Commit(d) /\ Called("reload_buffer", FALSE, d)
        /\ fold_probe' = NoProbe

SetLineEnding ==
    \E line_ending \in {"Lf", "CrLf"} :
        /\ \E d \in {set_line_ending(Self, line_ending)} :
            Commit(d) /\ Called("set_line_ending", FALSE, d)
        /\ fold_probe' = NoProbe

InitStyles ==
    InitWith(Texts(MaxDoc), {[kind |-> "EditorWidth", width |-> 0]}, Viewports,
             {AllOn})

NextStyles ==
    \/ UpdateSemanticStyles
    \/ SetSyntaxWithRev
    \/ UpdateSemanticStylesFromLsp
    \/ ReloadBuffer
    \/ SetLineEnding
    \/ UpdateViewportByScroll

SpecStyles == InitStyles /\ [][NextStyles]_vars

\* ---------------------------------------------------- overlays under edits
\* The hints and diagnostics a server may deliver for a text: each at
\* positions of the text, a hint's span starting at its position.
HintLists(t) ==
    {<<>>} \cup {<<[offset |-> offset_of_position(t, p), position |-> p]>> :
                    p \in Positions(t)}

DiagnosticLists(t) ==
    {<<>>} \cup {<<[range_start |-> r.start, range_end |-> r.end,
                    severity |-> SeverityError]>> :
                    r \in {q \in [start : Positions(t), end : Positions(t)] :
                              PosLT(q.start, q.end)}}

\* The server analyses the revisions below MaxRev.
SetInlayHints ==
    \E inlay_hint \in HintLists(buffer.text) :
        /\ buffer.rev < MaxRev
        /\ \E d \in {set_inlay_hints(Self, inlay_hint)} :
            Commit(d) /\ Called("set_inlay_hints", FALSE, d)
        /\ fold_probe' = NoProbe

InitDiagnostics ==
    \E published \in DiagnosticLists(buffer.text) :
        /\ buffer.rev < MaxRev
        /\ \E d \in {init_diagnostics(Self, published)} :
            Commit(d) /\ Called("init_diagnostics", FALSE, d)
        /\ fold_probe' = NoProbe

\* An edit that inserts or deletes up to MaxIns bytes.
EditBufferLong ==
    \E from \in 0..Len(buffer.text), ins \in Texts(MaxIns) :
      \E to \in from..Len(buffer.text) :
        /\ buffer.rev < MaxRev
        /\ to - from <= MaxIns
        /\ (to > from) # (Len(ins) > 0)
        /\ Len(buffer.text) - (to - from) + Len(ins) <= MaxLen
        /\ \E d \in {edit_buffer(Self, from, to, ins)} :
            Commit(d) /\ Called("edit_buffer", FALSE, d)
        /\ fold_probe' = NoProbe

InitOverlay ==
    InitWith(Texts(1), {[kind |-> "None", width |-> 0]},
             {[y0 |-> 0, width |-> 1]}, {AllOn})

NextOverlay ==
    \/ SetInlayHints
    \/ InitDiagnostics
    \/ EditBufferLong
    \/ UpdateFoldingNew
    \/ UpdateFoldingByItem

SpecOverlay == InitOverlay /\ [][NextOverlay]_vars

\* ------------------------------------------------- update_lines on its own
\* Every fold state over a text: a reported range list, each range expanded
\* or collapsed.
FoldStates(t) ==
    UNION {{[i \in 1..Len(rs) |->
                [start |-> rs[i].start, end |-> rs[i].end, status |-> st[i]]]
            : st \in [1..Len(rs) -> {Expanded, Collapsed}]}
           : rs \in RangeLists(t, MaxFolds)}

\* The inputs of a rebuild: a buffer, a fold state, a wrap method and a
\* viewport, in a DocLines whose line vectors are still to be built.
InitRebuild ==
    \E text \in Texts(MaxLen), style \in WrapMethods, vp \in Viewports :
      \E folds \in FoldStates(text) :
        /\ \E d \in {clear(NewDocLines(text, style, vp, AllOn))} :
                Holds([d EXCEPT !.folding_ranges = folds])
        /\ call = [op |-> "input", stale |-> FALSE, ret |-> TRUE,
                   rebuilt |-> FALSE]
        /\ fold_probe = NoProbe
        /\ lines_delta = None

UpdateLines ==
    /\ ~call.rebuilt
    /\ \E d \in {RunUpdateLines(Self)} :
        Commit(d) /\ Called("update_lines", FALSE, d)
    /\ fold_probe' = NoProbe

SpecRebuild == InitRebuild /\ [][UpdateLines]_vars

\* ------------------------------------------------ rebuild of a given buffer
\* The buffer "fn a(){\n  1\n}\n": lines of 7, 3 and 1 bytes, each ended by
\* a line break.
ScenarioText == <<X, X, X, X, X, X, X, NL, X, X, X, NL, X, NL>>

\* The fold states of at most one range over a text.
FoldStatesOfOne(t) ==
    UNION {{[i \in 1..Len(rs) |->
                [start |-> rs[i].start, end |-> rs[i].end, status |-> st]]
            : st \in {Expanded, Collapsed}}
           : rs \in RangeLists(t, 1)}

InitScenario ==
    \E style \in WrapMethods, vp \in Viewports :
      \E folds \in FoldStatesOfOne(ScenarioText) :
        /\ \E d \in {clear(NewDocLines(ScenarioText, style, vp, AllOn))} :
                Holds([d EXCEPT !.folding_ranges = folds])
        /\ call = [op |-> "input", stale |-> FALSE, ret |-> TRUE,
                   rebuilt |-> FALSE]
        /\ fold_probe = NoProbe
        /\ lines_delta = None

SpecScenario == InitScenario /\ [][UpdateLines]_vars

\* ------------------------------------------------------- position mapping
\* The outcome of a query that ended in a panic.
Fault == [fault |-> TRUE]

\* The loop over the segments before the target's: each adds its glyphs to
\* the column.
RECURSIVE AddGlyphs(_, _, _)
AddGlyphs(layout, sub_index, line_offset) ==
    IF sub_index = 0 \/ Len(layout) = 0 THEN line_offset
    ELSE AddGlyphs(Tail(layout), sub_index - 1, line_offset + Head(layout))

\* The index of the visual line before visual_line_index.
PreviousIndex(visual_line_index) == Max(visual_line_index, 1) - 1

\* The index of the visual line after visual_line_index, of n lines.
NextIndex(visual_line_index, n) == Min(visual_line_index, n - 2) + 1

\* The column of the last glyph of a segment, as next_visual_line takes it.
NextLastChar(glyphs) == Max(glyphs, 1) - 1

\* The column a target column maps to in the unit of a visual line.
TargetColumn(d, visual_line, line_offset) ==
    LET folded == d.origin_folded_lines[visual_line.origin_folded_line + 1]
    IN  cursor_position_of_final_col(folded.text_layout.phantom_text,
            AddGlyphs(folded.text_layout.layout,
                      visual_line.origin_folded_line_sub_index,
                      line_offset))[2]

\* The glyphs of the segment of a visual line.
TargetGlyphs(d, visual_line) ==
    LET layout == d.origin_folded_lines[visual_line.origin_folded_line + 1]
                      .text_layout.layout
        k == visual_line.origin_folded_line_sub_index
    IN  IF k < Len(layout) THEN Some(layout[k + 1]) ELSE None

\* DocLines::previous_visual_line: the set of outcomes.  glyphs.len() - 1 on
\* a segment without glyphs underflows: a panic where overflow is checked,
\* the largest usize otherwise, which no column equals.
previous_visual_line(d, visual_line_index, line_offset) ==
    IF PreviousIndex(visual_line_index) >= Len(d.visual_lines) THEN {Fault}
    ELSE
    LET prev_visual_line == d.visual_lines[PreviousIndex(visual_line_index) + 1]
        glyphs == TargetGlyphs(d, prev_visual_line)
        offset_line == TargetColumn(d, prev_visual_line, line_offset)
        Out(last) == [fault |-> FALSE, visual_line |-> prev_visual_line,
                      col |-> offset_line, last_char |-> last]
    IN  IF ~IsSome(glyphs) THEN {Out(offset_line = 0)}
        ELSE IF glyphs[1] = 0 THEN {Fault, Out(FALSE)}
        ELSE {Out(offset_line = glyphs[1] - 1)}

\* DocLines::next_visual_line: the set of outcomes.  With fewer than two
\* visual lines len() - 2 underflows: a panic where overflow is checked, and
\* otherwise an index past the vector, a panic too.
next_visual_line(d, visual_line_index, line_offset) ==
    IF Len(d.visual_lines) < 2 THEN {Fault}
    ELSE
    LET next == d.visual_lines[
                    NextIndex(visual_line_index, Len(d.visual_lines)) + 1]
        glyphs == TargetGlyphs(d, next)
        offset_line == TargetColumn(d, next, line_offset)
        last_char == IF IsSome(glyphs) THEN NextLastChar(glyphs[1]) ELSE 0
    IN  {[fault |-> FALSE, visual_line |-> next, col |-> offset_line,
          last_char |-> (offset_line = last_char)]}

\* The outcome of a lookup over a vector: the first element among the hits,
\* and a panic when there is none.
Found(lines, hits) ==
    IF hits = {} THEN Fault
    ELSE [fault |-> FALSE, value |-> lines[FirstIndex(hits)]]

\* DocLines::folded_line_of_origin_line
folded_line_of_origin_line(d, origin_line) ==
    Found(d.origin_folded_lines,
          {i \in 1..Len(d.origin_folded_lines) :
              /\ d.origin_folded_lines[i].origin_line_start <= origin_line
              /\ origin_line <= d.origin_folded_lines[i].origin_line_end})

\* DocLines::start_visual_line_of_folded_line
start_visual_line_of_folded_line(d, origin_folded_line) ==
    Found(d.visual_lines,
          {i \in 1..Len(d.visual_lines) :
              d.visual_lines[i].origin_folded_line = origin_folded_line})

\* DocLines::visual_line_of_folded_line_and_sub_index
visual_line_of_folded_line_and_sub_index(d, origin_folded_line, sub_index) ==
    Found(d.visual_lines,
          {i \in 1..Len(d.visual_lines) :
              /\ d.visual_lines[i].origin_folded_line = origin_folded_line
              /\ d.visual_lines[i].origin_folded_line_sub_index = sub_index})

\* The forward mapping: the composed column of an origin (line, column), the
\* number of glyphs composed before it; the glyphs of the fragments anchored
\* at the column come before the column's own byte.
final_col_of_col(multi, line, col) ==
    Cardinality({i \in 1..Len(multi.cells) :
        \/ PosLT(<<multi.cells[i].line, multi.cells[i].col>>, <<line, col>>)
        \/ /\ multi.cells[i].line = line
           /\ multi.cells[i].col = col
           /\ multi.cells[i].kind # "Origin"})

\* The wrap segment of a composed column and the column inside it, searched
\* from segment index on; a column at a wrap boundary goes to the next
\* segment before the cursor and stays on this one after it.
RECURSIVE SegmentOf(_, _, _, _)
SegmentOf(layout, index, final_offset, before_cursor) ==
    IF index >= Len(layout) THEN <<Len(layout) - 1, final_offset>>
    ELSE IF \/ before_cursor /\ final_offset < layout[index + 1]
            \/ ~before_cursor /\ final_offset <= layout[index + 1]
         THEN <<index, final_offset>>
         ELSE SegmentOf(layout, index + 1, final_offset - layout[index + 1],
                        before_cursor)

\* OriginFoldedLine::visual_line_of_line_and_offset: the segment, the column
\* in the segment and the composed column of an origin (line, column).
visual_line_of_line_and_offset(folded, origin_line, offset, before_cursor) ==
    LET offset_of_folded ==
            final_col_of_col(folded.text_layout.phantom_text,
                             origin_line, offset)
        found == SegmentOf(folded.text_layout.layout, 0,
                           offset_of_folded, before_cursor)
    IN  <<found[1], found[2], offset_of_folded>>

\* DocLines::visual_line_of_offset: the outcome for a buffer offset.
visual_line_of_offset(d, offset, before_cursor) ==
    LET origin_line == line_of_offset(d.buffer.text, offset)
        col == offset - offset_of_line(d.buffer.text, origin_line)
        folded == folded_line_of_origin_line(d, origin_line)
    IN  IF folded.fault THEN Fault
        ELSE LET at == visual_line_of_line_and_offset(folded.value,
                            origin_line, col, before_cursor)
                 visual_line == visual_line_of_folded_line_and_sub_index(
                                    d, folded.value.line_index, at[1])
             IN  IF visual_line.fault THEN Fault
                 ELSE [fault |-> FALSE, visual_line |-> visual_line.value,
                       offset_of_visual |-> at[2], offset_of_folded |-> at[3]]

\* DocLines::lines_of_origin_offset: the lines of a buffer offset; the segment
\* is the first one the composed column falls short of, the last one when
\* there is none.
lines_of_origin_offset(d, origin_offset) ==
    LET line == line_of_offset(d.buffer.text, origin_offset)
    IN  IF line >= Len(d.origin_lines) THEN Fault
        ELSE LET origin_line == d.origin_lines[line + 1]
                 folded == folded_line_of_origin_line(d, origin_line.line_index)
             IN  IF origin_offset < origin_line.start_offset \/ folded.fault
                 THEN Fault
                 ELSE LET origin_folded_line_offest ==
                              final_col_of_col(
                                  folded.value.text_layout.phantom_text,
                                  origin_line.line_index,
                                  origin_offset - origin_line.start_offset)
                          found == SegmentOf(folded.value.text_layout.layout,
                                             0, origin_folded_line_offest, TRUE)
                          visual_line ==
                              visual_line_of_folded_line_and_sub_index(
                                  d, folded.value.line_index, found[1])
                      IN  IF visual_line.fault THEN Fault
                          ELSE [fault |-> FALSE,
                                origin_offset |-> 0,
                                origin_line |-> origin_line,
                                origin_folded_line |-> folded.value,
                                origin_folded_line_offest |-> 0,
                                visual_line |-> visual_line.value,
                                visual_line_offest |-> 0]

\* The loop of visual_line_of_origin_line_offset over the segments from
\* segment index on: the segment, the column in it and the last-character
\* flag; when no segment takes the column the last segment is kept, with
\* what is left of the column and no flag.
RECURSIVE SegmentAndLastChar(_, _, _, _)
SegmentAndLastChar(layout, index, final_offset, before_cursor) ==
    IF index >= Len(layout) THEN <<Len(layout) - 1, final_offset, FALSE>>
    ELSE IF before_cursor /\ final_offset < layout[index + 1]
         THEN <<index, final_offset, final_offset = layout[index + 1] - 1>>
         ELSE IF before_cursor
         THEN SegmentAndLastChar(layout, index + 1,
                                 final_offset - layout[index + 1], before_cursor)
         ELSE IF final_offset <= layout[index + 1]
         THEN <<index, final_offset, final_offset + 1 >= layout[index + 1]>>
         ELSE SegmentAndLastChar(layout, index + 1,
                                 final_offset - layout[index + 1], before_cursor)

\* DocLines::visual_line_of_origin_line_offset: the visual line, the column
\* in it and the last-character flag of an origin (line, column).
visual_line_of_origin_line_offset(d, origin_line, offset, before_cursor) ==
    LET folded == folded_line_of_origin_line(d, origin_line)
    IN  IF folded.fault THEN Fault
        ELSE LET at == SegmentAndLastChar(
                            folded.value.text_layout.layout, 0,
                            final_col_of_col(folded.value.text_layout.phantom_text,
                                             origin_line, offset),
                            before_cursor)
                 visual_line == visual_line_of_folded_line_and_sub_index(
                                    d, folded.value.line_index, at[1])
             IN  IF visual_line.fault THEN Fault
                 ELSE [fault |-> FALSE, visual_line |-> visual_line.value,
                       final_offset |-> at[2], last_char |-> at[3]]

\* A query leaves the model as it is and records its arguments and outcome.
Queried(op, args, out) ==
    /\ call' = [op |-> op, stale |-> FALSE, ret |-> TRUE, rebuilt |-> TRUE,
                args |-> args, out |-> out]
    /\ UNCHANGED <<buffer, folding_ranges, inlay_hints, diagnostics, config,
                   editor_style, viewport, syntax, semantic_styles,
                   line_styles, style_from_lsp, completion_lens,
                   completion_pos, inline_completion, preedit, origin_lines,
                   origin_folded_lines, visual_lines, last_line, fold_probe,
                   lines_delta>>

\* The target columns of a navigation.
TargetColumns == 0..MaxLen

PreviousVisualLine ==
    /\ call.rebuilt
    /\ \E i \in 0..(Len(visual_lines) - 1), line_offset \in TargetColumns :
        \E out \in previous_visual_line(Self, i, line_offset) :
            Queried("previous_visual_line", <<i, line_offset>>, out)

NextVisualLine ==
    /\ call.rebuilt
    /\ \E i \in 0..(Len(visual_lines) - 1), line_offset \in TargetColumns :
        \E out \in next_visual_line(Self, i, line_offset) :
            Queried("next_visual_line", <<i, line_offset>>, out)

FoldedLineOfOriginLine ==
    /\ call.rebuilt
    /\ \E origin_line \in 0..(buffer_last_line(buffer.text) + 1) :
        Queried("folded_line_of_origin_line", <<origin_line>>,
                folded_line_of_origin_line(Self, origin_line))

StartVisualLineOfFoldedLine ==
    /\ call.rebuilt
    /\ \E f \in 0..Len(origin_folded_lines) :
        Queried("start_visual_line_of_folded_line", <<f>>,
                start_visual_line_of_folded_line(Self, f))

VisualLineOfFoldedLineAndSubIndex ==
    /\ call.rebuilt
    /\ \E f \in 0..Len(origin_folded_lines), sub_index \in 0..MaxLen :
        Queried("visual_line_of_folded_line_and_sub_index", <<f, sub_index>>,
                visual_line_of_folded_line_and_sub_index(Self, f, sub_index))

VisualLineOfOffset ==
    /\ call.rebuilt
    /\ \E offset \in 0..Len(buffer.text), before_cursor \in BOOLEAN :
        Queried("visual_line_of_offset", <<offset, before_cursor>>,
                visual_line_of_offset(Self, offset, before_cursor))

LinesOfOriginOffset ==
    /\ call.rebuilt
    /\ \E origin_offset \in 0..Len(buffer.text) :
        Queried("lines_of_origin_offset", <<origin_offset>>,
                lines_of_origin_offset(Self, origin_offset))

VisualLineOfOriginLineOffset ==
    /\ call.rebuilt
    /\ \E o \in 0..Len(buffer.text), before_cursor \in BOOLEAN :
        \E at \in {offset_to_line_col(buffer.text, o)} :
            Queried("visual_line_of_origin_line_offset",
                    <<at[1], at[2], before_cursor>>,
                    visual_line_of_origin_line_offset(Self, at[1], at[2],
                                                      before_cursor))

\* The snapshots queried: a buffer, at most one folding range, a wrap width.
InitNavigate ==
    \E text \in Texts(MaxLen) :
      \E style \in {s \in WrapMethods : s.kind # "EditorWidth"} :
        \E folds \in FoldStatesOfOne(text) :
          /\ \E d \in {clear(NewDocLines(text, style,
                                  [y0 |-> 0, width |-> 1], AllOn))} :
                  Holds([d EXCEPT !.folding_ranges = folds])
          /\ call = [op |-> "input", stale |-> FALSE, ret |-> TRUE,
                     rebuilt |-> FALSE]
          /\ fold_probe = NoProbe
          /\ lines_delta = None

NextNavigate ==
    \/ UpdateLines
    \/ PreviousVisualLine
    \/ NextVisualLine
    \/ FoldedLineOfOriginLine
    \/ StartVisualLineOfFoldedLine
    \/ VisualLineOfFoldedLineAndSubIndex
    \/ VisualLineOfOffset
    \/ LinesOfOriginOffset
    \/ VisualLineOfOriginLineOffset

SpecNavigate == InitNavigate /\ [][NextNavigate]_vars

\* ------------------------------------------------------------------ clicks
\* DocLines::result_of_left_click on composed column index of the unit of a
\* visual line: a fold placeholder there is clicked open and the lines are
\* rebuilt; other overlay text matches without a location; text of the
\* buffer is no hint.
result_of_left_click(d, visual_line, index) ==
    LET phantom == d.origin_folded_lines[visual_line.origin_folded_line + 1]
                        .text_layout.phantom_text.cells[index + 1]
    IN  IF phantom.kind = "Origin" THEN [d EXCEPT !.ret = "NoHint"]
        ELSE IF phantom.kind = "Fold"
        THEN Let(update_folding_ranges(d,
                    [kind |-> "UpdateByPhantom",
                     position |-> <<phantom.line, phantom.col>>]),
                 LAMBDA d1 : [d1 EXCEPT !.ret = "MatchFolded"])
        ELSE [d EXCEPT !.ret = "MatchWithoutLocation"]

\* A click on a glyph of a visual line's unit; the call is recorded with the
\* glyph that was hit and the fold state and the lines before the click.
ResultOfLeftClick ==
    /\ call.rebuilt
    /\ \E v \in 1..Len(visual_lines) :
        \E cells \in {origin_folded_lines[visual_lines[v].origin_folded_line + 1]
                        .text_layout.phantom_text.cells} :
          \E index \in 0..(Len(cells) - 1) :
            \E d \in {result_of_left_click(Self, visual_lines[v], index)} :
                /\ Commit(d)
                /\ call' = [op |-> "result_of_left_click", stale |-> FALSE,
                            ret |-> d.ret, rebuilt |-> TRUE,
                            hit |-> cells[index + 1],
                            before |-> [folding_ranges |-> folding_ranges,
                                        origin_lines |-> origin_lines,
                                        origin_folded_lines |-> origin_folded_lines,
                                        visual_lines |-> visual_lines]]
    /\ fold_probe' = NoProbe
    /\ lines_delta' = lines_delta

NextClick ==
    \/ UpdateLines
    \/ ResultOfLeftClick

SpecClick == InitRebuild /\ [][NextClick]_vars

\* ------------------------------------------------- incremental delta engine
\* An origin line as the delta engine keeps it: its index, the offset of its
\* first byte and its length in bytes.
init_origin_line(t, line) ==
    [line_index |-> line, start_offset |-> offset_of_line(t, line),
     len |-> line_len(t, line)]

\* Offset::new: the signed shift that takes the old value to the new one.
Offset_new(old, new) == new - old

\* OriginLine::adjust: a copied line shifted in bytes and in line index.
adjust(x, offset, line_offset) ==
    [x EXCEPT !.start_offset = @ + offset, !.line_index = @ + line_offset]

\* Every origin line of a text, built from scratch.
all_origin_lines(t) ==
    [i \in 1..num_lines(t) |-> init_origin_line(t, i - 1)]

\* The plan of the edit that replaces [edit_start, edit_end_old) of the old
\* text by n bytes: the first line is recomputed when the edit starts in it,
\* otherwise the lines before the edit are copied; lines are recomputed from
\* the line of edit_start up to the post-edit end of the edit; the lines after
\* the line of edit_end_old are copied, shifted by the change of length; the
\* last line is recomputed when the edit reaches it.
delta_compute(old, edit_start, edit_end_old, n) ==
    LET first_touched == line_of_offset(old, edit_start)
        last_touched  == line_of_offset(old, edit_end_old)
    IN  [recompute_first_line |-> first_touched = 0,
         copy_line_start_offset |-> 0,
         copy_line_start |-> Interval(0, first_touched),
         recompute_line_start |-> first_touched,
         recompute_offset_end |-> edit_start + n,
         copy_line_end |-> Interval(last_touched + 1, num_lines(old)),
         copy_line_end_offset |-> n - (edit_end_old - edit_start),
         recompute_last_line |-> last_touched = buffer_last_line(old)]

\* origin_lines_delta: the fields of the plan.
origin_lines_delta(delta) == delta[1]

\* DocLines::copy_origin_line.
copy_origin_line(d, copy_line, offset, line_index) ==
    LET line_offset == Offset_new(copy_line.start, line_index)
    IN  [i \in 1..(copy_line.end - copy_line.start) |->
            adjust(d.origin_lines[copy_line.start + i], offset, line_offset)]

\* The lines the recompute loop pushes from line x on.
RECURSIVE RecomputeLines(_, _, _)
RecomputeLines(t, x, recompute_offset_end) ==
    IF x > buffer_last_line(t) THEN <<>>
    ELSE LET line == init_origin_line(t, x)
             end  == line.start_offset + line.len
         IN  IF end >= recompute_offset_end THEN <<line>>
             ELSE <<line>> \o RecomputeLines(t, x + 1, recompute_offset_end)

\* The lines copied after the recomputed ones.
CopyLineEnd(d, p, pushed) ==
    IF p.copy_line_end.end > p.copy_line_end.start
    THEN copy_origin_line(d, p.copy_line_end, p.copy_line_end_offset, pushed)
    ELSE <<>>

\* DocLines::init_all_origin_line_new.
init_all_origin_line_new(d, delta) ==
    LET p == origin_lines_delta(delta)
        t == d.buffer.text
        first == IF p.recompute_first_line
                 THEN <<init_origin_line(t, 0)>> ELSE <<>>
        line_index == Len(first)
        prefix == IF p.copy_line_start.end > p.copy_line_start.start
                  THEN copy_origin_line(d, p.copy_line_start,
                           p.copy_line_start_offset, line_index)
                  ELSE <<>>
        pushed == first \o prefix
                    \o RecomputeLines(t, p.recompute_line_start,
                                      p.recompute_offset_end)
        last == IF p.recompute_last_line
                THEN <<init_origin_line(t, buffer_last_line(t))>> ELSE <<>>
    IN  pushed \o CopyLineEnd(d, p, Len(pushed)) \o last

\* Whether copy_origin_line's slice of the previous origin lines is out of
\* range: the slice is taken of a copy interval that is not empty.
SliceOutOfRange(d, copy_line) ==
    /\ copy_line.end > copy_line.start
    /\ copy_line.end > Len(d.origin_lines)

\* The outcome of DocLines::init_all_origin_line_new on any plan: a panic
\* when a slice is out of range, otherwise Ok of the vector built.
init_all_origin_line_new_outcome(d, delta) ==
    IF \/ SliceOutOfRange(d, origin_lines_delta(delta).copy_line_start)
       \/ SliceOutOfRange(d, origin_lines_delta(delta).copy_line_end)
    THEN Fault
    ELSE [fault |-> FALSE, err |-> FALSE,
          value |-> init_all_origin_line_new(d, delta)]

\* The plans that refer to lines outside the model: a copy interval that
\* ends past the previous origin lines, or a recompute start past the
\* buffer's last line.
OutsidePlans(d, p) ==
    {[p EXCEPT !.copy_line_end =
            Interval(Min(@.start, Len(d.origin_lines)),
                     Len(d.origin_lines) + 1)],
     [p EXCEPT !.copy_line_start = Interval(0, Len(d.origin_lines) + 1)],
     [p EXCEPT !.recompute_line_start =
            buffer_last_line(d.buffer.text) + 1]}

\* A document without folds or overlays whose origin lines are those of its
\* text.
InitDelta ==
    \E text \in Texts(MaxLen) :
        /\ \E d \in {NewDocLines(text, [kind |-> "None", width |-> 0],
                                   [width |-> 1, y0 |-> 0], AllOn)} :
                Holds([d EXCEPT !.origin_lines = all_origin_lines(text)])
        /\ call = [op |-> "input", stale |-> FALSE, ret |-> TRUE,
                   rebuilt |-> FALSE]
        /\ fold_probe = NoProbe
        /\ lines_delta = None

\* An edit of the buffer and the plan computed for it.
EditDelta ==
    \E from \in 0..Len(buffer.text), ins \in Texts(MaxIns) :
      \E to \in from..Len(buffer.text) :
        /\ call.op = "input"
        /\ from < to \/ Len(ins) > 0
        /\ Len(buffer.text) - (to - from) + Len(ins) <= MaxLen
        /\ buffer' = [buffer EXCEPT !.text = EditText(@, from, to, ins),
                                    !.rev = @ + 1]
        /\ lines_delta' = Some(delta_compute(buffer.text, from, to, Len(ins)))
        /\ call' = [op |-> "edit", stale |-> FALSE, ret |-> TRUE,
                    rebuilt |-> FALSE,
                    edit |-> [from |-> from, to |-> to, ins |-> ins,
                              old |-> buffer.text]]
        /\ UNCHANGED <<folding_ranges, inlay_hints, diagnostics, config,
                       editor_style, viewport, syntax, semantic_styles,
                       line_styles, style_from_lsp, completion_lens,
                       completion_pos, inline_completion, preedit,
                       origin_lines, origin_folded_lines, visual_lines,
                       last_line, fold_probe>>

\* The engine runs on the plan and its result replaces the origin lines.
InitAllOriginLineNew ==
    /\ call.op = "edit"
    /\ IsSome(lines_delta)
    /\ origin_lines' = init_all_origin_line_new(Self, lines_delta)
    /\ call' = [call EXCEPT !.op = "init_all_origin_line_new"]
    /\ UNCHANGED <<buffer, folding_ranges, inlay_hints, diagnostics, config,
                   editor_style, viewport, syntax, semantic_styles,
                   line_styles, style_from_lsp, completion_lens,
                   completion_pos, inline_completion, preedit,
                   origin_folded_lines, visual_lines, last_line, fold_probe,
                   lines_delta>>

\* The engine runs on a plan that refers outside the model; its outcome is
\* recorded.
InitAllOriginLineNewOutside ==
    /\ call.op = "edit"
    /\ IsSome(lines_delta)
    /\ \E p \in OutsidePlans(Self, origin_lines_delta(lines_delta)) :
        call' = [op |-> "init_all_origin_line_new_outside", stale |-> FALSE,
                 ret |-> TRUE, rebuilt |-> FALSE, plan |-> p,
                 out |-> init_all_origin_line_new_outcome(Self, Some(p))]
    /\ UNCHANGED <<buffer, folding_ranges, inlay_hints, diagnostics, config,
                   editor_style, viewport, syntax, semantic_styles,
                   line_styles, style_from_lsp, completion_lens,
                   completion_pos, inline_completion, preedit, origin_lines,
                   origin_folded_lines, visual_lines, last_line, fold_probe,
                   lines_delta>>

NextDelta ==
    \/ EditDelta
    \/ InitAllOriginLineNew
    \/ InitAllOriginLineNewOutside

SpecDelta == InitDelta /\ [][NextDelta]_vars

\* -------------------------------------------------- composing the overlays
\* The ghost texts a completion may offer.
GhostTexts == {<<X>>}

SetCompletionLens ==
    \E completion \in GhostTexts, pos \in Positions(buffer.text) :
        /\ \E d \in {set_completion_lens(Self, completion, pos[1], pos[2])} :
            Commit(d) /\ Called("set_completion_lens", FALSE, d)
        /\ fold_probe' = NoProbe

ClearCompletionLens ==
    /\ IsSome(completion_lens)
    /\ \E d \in {clear_completion_lens(Self)} :
        Commit(d) /\ Called("clear_completion_lens", FALSE, d)
    /\ fold_probe' = NoProbe

SetInlineCompletion ==
    \E completion \in GhostTexts, pos \in Positions(buffer.text) :
        /\ \E d \in {set_inline_completion(Self, completion, pos[1], pos[2])} :
            Commit(d) /\ Called("set_inline_completion", FALSE, d)
        /\ fold_probe' = NoProbe

ClearInlineCompletion ==
    /\ IsSome(inline_completion)
    /\ \E d \in {clear_inline_completion(Self)} :
        Commit(d) /\ Called("clear_inline_completion", FALSE, d)
    /\ fold_probe' = NoProbe

\* The input method starts, moves or ends a composition; the document is not
\* told.
SetPreedit ==
    \E p \in {None} \cup {Some([text |-> txt, offset |-> o]) :
                            txt \in GhostTexts, o \in 0..Len(buffer.text)} :
        /\ preedit # p
        /\ \E d \in {[Self EXCEPT !.preedit = p]} :
            Commit(d) /\ Called("preedit", FALSE, d)
        /\ fold_probe' = NoProbe

InitCompose ==
    InitWith(Texts(1), {[kind |-> "None", width |-> 0]},
             {[y0 |-> 0, width |-> 1]}, {AllOn})

NextCompose ==
    \/ SetInlayHints
    \/ InitDiagnostics
    \/ SetCompletionLens
    \/ ClearCompletionLens
    \/ SetInlineCompletion
    \/ ClearInlineCompletion
    \/ SetPreedit
    \/ UpdateFoldingNew
    \/ UpdateFoldingByItem

SpecCompose == InitCompose /\ [][NextCompose]_vars

\* ---------------------------------------------------------- overlay switches
\* Overlay sources arrive under every setting of the four switches; a change
\* of configuration flips one switch.
UpdateConfig ==
    \E c \in {c \in Configs : Cardinality({f \in DOMAIN c : c[f] # config[f]}) = 1} :
        /\ \E d \in {update_config(Self, c)} :
            Commit(d) /\ Called("update_config", FALSE, d)
        /\ fold_probe' = NoProbe

InitFlags ==
    InitWith(Texts(1), {[kind |-> "None", width |-> 0]},
             {[y0 |-> 0, width |-> 1]}, Configs)

NextFlags ==
    \/ UpdateConfig
    \/ SetInlayHints
    \/ InitDiagnostics
    \/ SetCompletionLens
    \/ SetInlineCompletion

SpecFlags == InitFlags /\ [][NextFlags]_vars

\* ------------------------------------------------------------------- claims
\* A sequence of intervals covers [lo, hi) exactly once, in order: the first
\* starts at lo, each starts where the one before ends, the last ends at hi.
Partitions(ivs, lo, hi) ==
    /\ Len(ivs) > 0
    /\ ivs[1].start = lo
    /\ ivs[Len(ivs)].end = hi
    /\ \A i \in 1..Len(ivs) : ivs[i].start <= ivs[i].end
    /\ \A i \in 1..(Len(ivs) - 1) : ivs[i + 1].start = ivs[i].end

\* The visual lines of folded line f, in vector order.
VisualLinesOfFolded(f) ==
    SelectSeq(visual_lines, LAMBDA v : v.origin_folded_line = f)

RECURSIVE SumSeq(_)
SumSeq(ns) == IF Len(ns) = 0 THEN 0 ELSE Head(ns) + SumSeq(Tail(ns))

\* C2: after a rebuild the origin intervals of the folded lines, in vector
\* order, are contiguous and non-overlapping, start at 0 and end at the
\* buffer's length.
C2_FoldedIntervalsCover ==
    call.rebuilt =>
        Partitions([i \in 1..Len(origin_folded_lines) |->
                        origin_folded_lines[i].origin_interval],
                   0, Len(buffer.text))

\* A rebuild that merged origin lines into one unit and left another unit
\* after it.
C2_Witness ==
    /\ call.rebuilt
    /\ Len(origin_folded_lines) >= 2
    /\ \E i \in 1..Len(origin_folded_lines) :
        origin_folded_lines[i].origin_line_end
            > origin_folded_lines[i].origin_line_start

\* C3: after a rebuild, the visual intervals of each folded line's visual
\* lines start at 0, each begins where the previous one ends, and the last
\* ends at the composed text's length, the sum of the segments' glyphs.
C3_VisualIntervalsPartition ==
    call.rebuilt =>
        \A f \in 1..Len(origin_folded_lines) :
            LET vs == VisualLinesOfFolded(f - 1)
            IN  Partitions([i \in 1..Len(vs) |-> vs[i].visual_interval], 0,
                    SumSeq(origin_folded_lines[f].text_layout.layout))

\* C4: after a rebuild, the origin intervals of each folded line's visual
\* lines partition the folded line's origin interval, and only the last of
\* them may be empty.
C4_OriginIntervalsPartition ==
    call.rebuilt =>
        \A f \in 1..Len(origin_folded_lines) :
            LET vs == VisualLinesOfFolded(f - 1)
                iv == origin_folded_lines[f].origin_interval
            IN  /\ Partitions([i \in 1..Len(vs) |-> vs[i].origin_interval],
                              iv.start, iv.end)
                /\ \A i \in 1..(Len(vs) - 1) :
                    vs[i].origin_interval.start < vs[i].origin_interval.end

\* C5: after a rebuild, in every fold state, origin_lines has one entry per
\* buffer line, entry i has line_index i and the offset of line i, and the
\* offsets increase strictly.
C5_OriginLinesIndex ==
    call.rebuilt =>
        /\ Len(origin_lines) = num_lines(buffer.text)
        /\ \A i \in 1..Len(origin_lines) :
            /\ origin_lines[i].line_index = i - 1
            /\ origin_lines[i].start_offset
                = offset_of_line(buffer.text, i - 1)
        /\ \A i \in 1..(Len(origin_lines) - 1) :
            origin_lines[i].start_offset < origin_lines[i + 1].start_offset

\* The index and offset of an origin line.
IndexAndOffset(x) ==
    [line_index |-> x.line_index, start_offset |-> x.start_offset]

\* C1: for every buffer and every edit, the origin lines the incremental
\* engine returns for the edit's plan equal, in line_index and start_offset,
\* the origin lines of a full rebuild over the edited buffer.
C1_IncrementalEqualsRebuild ==
    call.op = "init_all_origin_line_new" =>
        [i \in 1..Len(origin_lines) |-> IndexAndOffset(origin_lines[i])]
            = [i \in 1..num_lines(buffer.text) |->
                    IndexAndOffset(init_origin_line(buffer.text, i - 1))]

\* C6: the vector the incremental engine returns holds every origin line of
\* the edited buffer once and in order: it is as long as the buffer has lines
\* and element i has line_index i.
C6_EachLineOnce ==
    call.op = "init_all_origin_line_new" =>
        /\ Len(origin_lines) = num_lines(buffer.text)
        /\ \A i \in 1..Len(origin_lines) : origin_lines[i].line_index = i - 1

\* C7: when an operation returns, the origin-line, folded-line and visual-line
\* vectors are those of a full rebuild over the current buffer, fold state,
\* overlays, config and viewport.
C7_VectorsEqualRebuild ==
    \E r \in {update_lines(Self)} :
        /\ origin_lines = r.origin_lines
        /\ origin_folded_lines = r.origin_folded_lines
        /\ visual_lines = r.visual_lines

\* C9: once a range has been toggled from expanded to collapsed and back, the
\* visual lines are again those from before the first toggle.
C9_ToggleRestores ==
    fold_probe.phase = 2 => visual_lines = fold_probe.vis

\* C8: update_semantic_styles and set_syntax_with_rev, called with a revision
\* that is not the buffer's, return false, leave semantic_styles, syntax and
\* line_styles as they were and do not rebuild the line vectors.
C8_StaleRevDiscarded ==
    [][(/\ call'.op \in {"update_semantic_styles", "set_syntax_with_rev"}
        /\ call'.stale)
       => /\ ~call'.ret
          /\ ~call'.rebuilt
          /\ UNCHANGED <<semantic_styles, syntax, line_styles, origin_lines,
                         origin_folded_lines, visual_lines>>]_vars

\* A stale call has returned on a document whose vectors a rebuild would
\* change.
C8_Witness ==
    /\ call.op \in {"update_semantic_styles", "set_syntax_with_rev"}
    /\ call.stale
    /\ ~C7_VectorsEqualRebuild

\* A position lies strictly inside a collapsed folding range.
InsideCollapsed(pos) ==
    \E i \in 1..Len(folding_ranges) :
        /\ folding_ranges[i].status = Collapsed
        /\ PosLT(folding_ranges[i].start, pos)
        /\ PosLT(pos, folding_ranges[i].end)

\* The hint and diagnostic fragments of the folded lines' overlay lists.
OverlayFragments ==
    {p \in UNION {{origin_folded_lines[f].text_layout.phantom_text.text[i] :
                i \in 1..Len(origin_folded_lines[f].text_layout.phantom_text.text)}
           : f \in 1..Len(origin_folded_lines)} :
        p.kind \in {"InlayHint", "Diagnostic"}}

\* C10: no folded line's overlay list holds a hint or diagnostic fragment
\* whose anchor, the place in the buffer it is attached to, lies strictly
\* inside a collapsed folding range.
C10_NoOverlayInsideCollapsed ==
    \A p \in OverlayFragments : \A pos \in p.anchors : ~InsideCollapsed(pos)

\* The place of a fragment's source in the construction order.
ConstructionRank(from) ==
    CASE from = "inlay_hints" -> 1
      [] from = "diagnostics" -> 2
      [] from = "completion_lens" -> 3
      [] from = "inline_completion" -> 4
      [] from = "preedit" -> 5
      [] from = "folding_ranges" -> 6

\* C11: the fragments phantom_text collects for an origin line come in the
\* order inlay hints, diagnostics, completion lens, inline completion,
\* preedit, fold placeholders, whatever their columns.
C11_ConstructionOrder ==
    \A line \in 0..buffer_last_line(buffer.text) :
        \A text \in {phantom_text(Self, line).text} :
            \A i \in 1..Len(text), j \in 1..Len(text) :
                i < j => ConstructionRank(text[i].from)
                            <= ConstructionRank(text[j].from)

\* Four fragments of different sources share a column of a line.
C11_Witness ==
    \E line \in 0..buffer_last_line(buffer.text) :
        \E text \in {phantom_text(Self, line).text} :
            /\ Len(text) >= 4
            /\ \A i \in 1..Len(text) : text[i].col = text[1].col
            /\ Cardinality({text[i].from : i \in 1..Len(text)}) >= 4

(* The collapsed ranges of the fold list and the folded lines of the model. *)
CollapsedRanges ==
    {folding_ranges[i] : i \in {j \in 1..Len(folding_ranges) : folding_ranges[j].status = Collapsed}}

FoldedLines ==
    {origin_folded_lines[i] : i \in 1..Len(origin_folded_lines)}

(* C12: after a rebuild, a folded line spans several origin lines a..b only
   when one collapsed range contains lines a..b, and every collapsed range
   has its first and last line inside one folded line. *)
C12_MergeRule ==
    call.rebuilt =>
        /\ \A f \in FoldedLines :
               f.origin_line_start < f.origin_line_end =>
                   \E r \in CollapsedRanges :
                       /\ r.start[1] <= f.origin_line_start
                       /\ f.origin_line_end <= r.end[1]
        /\ \A r \in CollapsedRanges :
               \E f \in FoldedLines :
                   /\ f.origin_line_start <= r.start[1]
                   /\ r.end[1] <= f.origin_line_end

(* The rebuilt vectors have n lines at each level, one visual line per folded
   line, and each visual line covers the bytes of its origin line. *)
LinesOneToOne(n) ==
    /\ Len(origin_lines) = n
    /\ Len(origin_folded_lines) = n
    /\ Len(visual_lines) = n
    /\ \A i \in 1..Len(visual_lines) :
           visual_lines[i].origin_interval
               = Interval(offset_of_line(buffer.text, i - 1),
                          offset_of_line(buffer.text, i))

(* The buffer "fn a(){\n  1\n}\n" rebuilt without folds, overlays or
   wrapping. *)
ScenarioRebuilt ==
    /\ call.rebuilt
    /\ buffer.text = ScenarioText
    /\ folding_ranges = <<>>
    /\ editor_style.wrap_method.kind = "None"

(* C13 as stated: the rebuild of the buffer "fn a(){\n  1\n}\n" without
   folds, overlays or wrapping gives 3 origin lines, 3 folded lines and 3
   visual lines, each visual line covering the bytes of its origin line. *)
C13_ThreeLines == ScenarioRebuilt => LinesOneToOne(3)

(* C13, amended: that rebuild gives 4 origin lines, 4 folded lines and 4
   visual lines, the fourth being the empty line after the last line break,
   and each visual line covers the bytes of its origin line. *)
C13_FourLines == ScenarioRebuilt => LinesOneToOne(4)

C13_Witness == ScenarioRebuilt /\ Len(visual_lines) = 4

(* The state follows a call of previous_visual_line or next_visual_line. *)
Navigated == call.op \in {"previous_visual_line", "next_visual_line"}

(* C14: for every valid index i, previous_visual_line returns visual line
   i - 1 (line 0 when i = 0) and next_visual_line returns visual line i + 1
   (the last one when i is the last), and neither call faults. *)
C14_AdjacentLine ==
    /\ call.op = "previous_visual_line" =>
        /\ ~call.out.fault
        /\ call.out.visual_line = visual_lines[Max(call.args[1] - 1, 0) + 1]
    /\ call.op = "next_visual_line" =>
        /\ ~call.out.fault
        /\ call.out.visual_line
            = visual_lines[Min(call.args[1] + 1, Len(visual_lines) - 1) + 1]

(* The origin columns of the glyphs of the segment of a visual line, in
   order; a segment without glyphs has none. *)
SegmentColumns(visual_line) ==
    LET folded == origin_folded_lines[visual_line.origin_folded_line + 1]
        layout == folded.text_layout.layout
        k      == visual_line.origin_folded_line_sub_index
        before == SumSeq(SubSeq(layout, 1, k))
    IN  [c \in 1..layout[k + 1] |->
            cursor_position_of_final_col(folded.text_layout.phantom_text,
                                         before + c - 1)[2]]

(* C15: when the target visual line has glyphs, the boolean returned by
   previous_visual_line and next_visual_line is true exactly when the
   returned column is the column of the line's last character. *)
C15_LastCharFlag ==
    (Navigated /\ ~call.out.fault) =>
        \A cols \in {SegmentColumns(call.out.visual_line)} :
            Len(cols) > 0 =>
                (call.out.last_char <=> call.out.col = cols[Len(cols)])

(* C16: previous_visual_line and next_visual_line complete without a fault
   and return a column of the target visual line, for every target column;
   on a visual line without glyphs they return the column of its unit's
   end. *)
C16_ColumnWithinLine ==
    Navigated =>
        /\ ~call.out.fault
        /\ \A cols \in {SegmentColumns(call.out.visual_line)} :
            IF Len(cols) > 0
            THEN \E c \in 1..Len(cols) : call.out.col = cols[c]
            ELSE \A folded \in {origin_folded_lines[
                        call.out.visual_line.origin_folded_line + 1]} :
                    call.out.col = cursor_position_of_final_col(
                        folded.text_layout.phantom_text,
                        SumSeq(folded.text_layout.layout))[2]

(* C18: a call of folded_line_of_origin_line, start_visual_line_of_folded_line
   or visual_line_of_folded_line_and_sub_index never ends in a panic, and a
   line it returns is one that matches the arguments. *)
C18_LookupFailureIsResult ==
    /\ call.op = "folded_line_of_origin_line" =>
        /\ ~call.out.fault
        /\ call.out.value.origin_line_start <= call.args[1]
        /\ call.args[1] <= call.out.value.origin_line_end
    /\ call.op = "start_visual_line_of_folded_line" =>
        /\ ~call.out.fault
        /\ call.out.value.origin_folded_line = call.args[1]
    /\ call.op = "visual_line_of_folded_line_and_sub_index" =>
        /\ ~call.out.fault
        /\ call.out.value.origin_folded_line = call.args[1]
        /\ call.out.value.origin_folded_line_sub_index = call.args[2]

(* C19: when the plan given to init_all_origin_line_new has a copy interval
   that ends past the previous origin lines, or a recompute start past the
   buffer's last line, the call returns an error: it neither panics nor
   returns a vector. *)
C19_OutsidePlanIsError ==
    call.op = "init_all_origin_line_new_outside" =>
        /\ ~call.out.fault
        /\ call.out.err

(* C20: after a rebuild each folded line has one visual line per wrap
   segment, in order; the visual line of a segment without glyphs has an
   empty visual_interval and an empty origin_interval at the end of the
   folded line's origin_interval; the visual_interval of the visual line of
   a segment with glyphs is as long as the segment's glyph count. *)
C20_OneVisualLinePerSegment ==
    call.rebuilt =>
        \A f \in 1..Len(origin_folded_lines) :
            \A vs \in {VisualLinesOfFolded(f - 1)} :
                \A layout \in {origin_folded_lines[f].text_layout.layout} :
                    /\ Len(vs) = Len(layout)
                    /\ \A k \in 1..Len(layout) :
                        IF layout[k] = 0
                        THEN /\ vs[k].visual_interval.start
                                    = vs[k].visual_interval.end
                             /\ vs[k].origin_interval
                                    = Interval(
                                        origin_folded_lines[f].origin_interval.end,
                                        origin_folded_lines[f].origin_interval.end)
                        ELSE vs[k].visual_interval.end
                                - vs[k].visual_interval.start = layout[k]

(* A rebuild with a segment without glyphs and a folded line wrapped into
   several segments with glyphs. *)
C20_Witness ==
    /\ call.rebuilt
    /\ \E f \in 1..Len(origin_folded_lines) :
        origin_folded_lines[f].text_layout.layout = <<0>>
    /\ \E f \in 1..Len(origin_folded_lines) :
        \A layout \in {origin_folded_lines[f].text_layout.layout} :
            Len(layout) >= 2 /\ \A k \in 1..Len(layout) : layout[k] > 0

(* The buffer offset a composed column of a visual line's unit maps back to:
   cursor_position_of_final_col, then the offset of that line and column. *)
OffsetOfFinalCol(visual_line, final_col) ==
    offset_of_position(buffer.text,
        cursor_position_of_final_col(
            origin_folded_lines[visual_line.origin_folded_line + 1]
                .text_layout.phantom_text,
            final_col))

(* The byte at offset o is shown: it is a glyph of a composed text. *)
Shown(o) ==
    \E f \in 1..Len(origin_folded_lines) :
        \E cells \in {origin_folded_lines[f].text_layout.phantom_text.cells} :
            \E i \in 1..Len(cells) :
                /\ cells[i].kind = "Origin"
                /\ <<cells[i].line, cells[i].col>>
                        = offset_to_line_col(buffer.text, o)

(* C17: visual_line_of_offset completes for every buffer offset o, under
   either affinity; the visual line it returns has an origin_interval that
   contains o (its end included), and when the byte at o is shown the
   composed column it returns maps back to o. *)
C17_RoundTrip ==
    call.op = "visual_line_of_offset" =>
        /\ ~call.out.fault
        /\ call.out.visual_line.origin_interval.start <= call.args[1]
        /\ call.args[1] <= call.out.visual_line.origin_interval.end
        /\ Shown(call.args[1]) =>
            OffsetOfFinalCol(call.out.visual_line, call.out.offset_of_folded)
                = call.args[1]

(* The line vectors are those a rebuild gives for the present fold state. *)
VectorsRebuilt ==
    \A d \in {update_lines(Self)} :
        /\ origin_lines = d.origin_lines
        /\ origin_folded_lines = d.origin_folded_lines
        /\ visual_lines = d.visual_lines

(* C21: a click of result_of_left_click on a glyph of the placeholder of a
   collapsed range returns MatchFolded, leaves every range collapsed at the
   placeholder's position expanded and the line vectors rebuilt for the new
   fold state; a click on text of the buffer returns NoHint and leaves the
   fold state and the line vectors as they were. *)
C21_ClickOnPlaceholder ==
    call.op = "result_of_left_click" =>
        /\ call.hit.kind = "Fold" =>
            /\ call.ret = "MatchFolded"
            /\ \A i \in 1..Len(call.before.folding_ranges) :
                (/\ call.before.folding_ranges[i].status = Collapsed
                 /\ call.before.folding_ranges[i].start
                        = <<call.hit.line, call.hit.col>>)
                    => folding_ranges[i].status = Expanded
            /\ VectorsRebuilt
        /\ call.hit.kind = "Origin" =>
            /\ call.ret = "NoHint"
            /\ folding_ranges = call.before.folding_ranges
            /\ origin_lines = call.before.origin_lines
            /\ origin_folded_lines = call.before.origin_folded_lines
            /\ visual_lines = call.before.visual_lines

\* The fragments phantom_text collects for an origin line, by source.
FragmentsFrom(line, from) ==
    {i \in 1..Len(phantom_text(Self, line).text) :
        phantom_text(Self, line).text[i].from = from}

\* C22: for every origin line, an overlay source that is absent or whose
\* switch is off contributes no fragment to the collected overlay list (the
\* collection itself always yields a list).
C22_AbsentOrDisabledSource ==
    \A line \in 0..buffer_last_line(buffer.text) :
        /\ \A i \in 1..Len(phantom_text(Self, line).text) :
              ConstructionRank(phantom_text(Self, line).text[i].from) \in 1..6
        /\ (~config.enable_inlay_hints \/ ~IsSome(inlay_hints))
              => FragmentsFrom(line, "inlay_hints") = {}
        /\ ~config.enable_error_lens
              => FragmentsFrom(line, "diagnostics") = {}
        /\ (~config.enable_completion_lens \/ ~IsSome(completion_lens))
              => FragmentsFrom(line, "completion_lens") = {}
        /\ (~config.enable_inline_completion \/ ~IsSome(inline_completion))
              => FragmentsFrom(line, "inline_completion") = {}

\* A completion lens is set while its switch is off, and another source still
\* shows a fragment on the line.
C22_Witness ==
    /\ IsSome(completion_lens)
    /\ ~config.enable_completion_lens
    /\ \E line \in 0..buffer_last_line(buffer.text) :
          /\ line = completion_pos[1]
          /\ FragmentsFrom(line, "completion_lens") = {}
          /\ phantom_text(Self, line).text # <<>>

(* C23: whenever set_syntax, set_syntax_with_rev or update_semantic_styles
   returns false, nothing of the analysis result was applied: syntax,
   semantic_styles, line_styles and the line vectors are what they were before
   the call, whatever style_from_lsp is. *)
C23_FalseMeansNotApplied ==
    [][(/\ call'.op \in {"update_semantic_styles", "set_syntax_with_rev"}
        /\ ~call'.ret)
       => UNCHANGED <<syntax, semantic_styles, line_styles, origin_lines,
                      origin_folded_lines, visual_lines>>]_vars

\* The glyphs of the wrap segments of a unit before the segment of a visual
\* line.
GlyphsBefore(visual_line) ==
    SumSeq(SubSeq(origin_folded_lines[visual_line.origin_folded_line + 1]
                      .text_layout.layout,
                  1, visual_line.origin_folded_line_sub_index))

(* C24: lines_of_origin_offset(o) returns origin_offset = o,
   origin_folded_line_offest equal to o's column in the composed text of its
   folded line, and visual_line_offest equal to that column less the glyphs of
   the wrap segments before the returned visual line. *)
C24_OffsetsReturned ==
    (call.op = "lines_of_origin_offset" /\ ~call.out.fault)
        => LET o == call.args[1]
               line == line_of_offset(buffer.text, o)
               column == final_col_of_col(
                             call.out.origin_folded_line.text_layout.phantom_text,
                             line, o - offset_of_line(buffer.text, line))
           IN  /\ call.out.origin_offset = o
               /\ call.out.origin_folded_line_offest = column
               /\ call.out.visual_line_offest
                      = column - GlyphsBefore(call.out.visual_line)

\* C25: after a rebuild every visual line carries its own position in the
\* vector as line_index, zero-glyph segments of empty lines included.
C25_LineIndexIsPosition ==
    call.rebuilt =>
        \A i \in 1..Len(visual_lines) : visual_lines[i].line_index = i - 1

\* A rebuild has pushed a zero-glyph visual line after other visual lines.
C25_Witness ==
    /\ call.op = "update_lines"
    /\ call.rebuilt
    /\ \E i \in 2..Len(visual_lines) :
          /\ visual_lines[i].visual_interval.start
                = visual_lines[i].visual_interval.end
          /\ visual_lines[i].line_index = i - 1

(* C27: for every composed column c of a folded line, from 0 to its glyph
   count, and either affinity, visual_line_of_origin_line_offset returns a
   segment and a column v in it with c = (glyphs of the segments before) + v
   and 0 <= v <= the segment's glyphs; the end of the line before the cursor
   is the end of the last segment. *)
C27_SegmentAndColumn ==
    (call.op = "visual_line_of_origin_line_offset" /\ ~call.out.fault)
        => LET visual_line == call.out.visual_line
               unit == origin_folded_lines[visual_line.origin_folded_line + 1]
               c == final_col_of_col(unit.text_layout.phantom_text,
                                     call.args[1], call.args[2])
               v == call.out.final_offset
           IN  /\ c = GlyphsBefore(visual_line) + v
               /\ 0 <= v
               /\ v <= unit.text_layout.layout[
                            visual_line.origin_folded_line_sub_index + 1]

(* C26: after a rebuild every wrap segment k of every folded line f has
   exactly one visual line with origin_folded_line f and sub-index k, so the
   lookup by (f, k) finds a visual line for the segment of every composed
   column of f under either affinity, and visual_line_of_origin_line_offset,
   lines_of_origin_offset and visual_line_of_offset end without a fault. *)
C26_OneVisualLinePerSubIndex ==
    call.rebuilt =>
        /\ \A f \in 1..Len(origin_folded_lines) :
             \A layout \in {origin_folded_lines[f].text_layout.layout} :
                /\ \A k \in 0..(Len(layout) - 1) :
                      Cardinality({i \in 1..Len(visual_lines) :
                          /\ visual_lines[i].origin_folded_line = f - 1
                          /\ visual_lines[i].origin_folded_line_sub_index = k})
                        = 1
                /\ \A c \in 0..SumSeq(layout), before_cursor \in BOOLEAN :
                      /\ ~visual_line_of_folded_line_and_sub_index(Self, f - 1,
                              SegmentOf(layout, 0, c, before_cursor)[1]).fault
                      /\ ~visual_line_of_folded_line_and_sub_index(Self, f - 1,
                              SegmentAndLastChar(layout, 0, c,
                                                 before_cursor)[1]).fault
        /\ call.op \in {"visual_line_of_origin_line_offset",
                        "lines_of_origin_offset", "visual_line_of_offset"}
              => ~call.out.fault

\* One of the three queries has found the visual line of a segment other
\* than the first of a wrapped folded line.
C26_Witness ==
    /\ call.op \in {"visual_line_of_origin_line_offset",
                    "lines_of_origin_offset", "visual_line_of_offset"}
    /\ ~call.out.fault
    /\ call.out.visual_line.origin_folded_line_sub_index > 0

\* C28: after construction and after every public mutating operation,
\* update_editor_style included, last_line is the buffer's last line plus one,
\* and so never 0.
C28_LastLineField ==
    /\ last_line = buffer_last_line(buffer.text) + 1
    /\ last_line # 0

\* The steps of a call after its last rebuild of the line vectors.
StepsAfterRebuild(steps) ==
    SubSeq(steps,
           Max(0, CHOOSE i \in 0..Len(steps) :
                      /\ i > 0 => steps[i] = "update_lines"
                      /\ \A j \in (i + 1)..Len(steps) :
                            steps[j] # "update_lines") + 1,
           Len(steps))

(* C29: a public mutating operation that has rebuilt the line vectors has,
   after its last rebuild, recomputed screen_lines and then folding_items, so
   that neither is left from before the rebuild when it returns. *)
C29_RecomputedAfterRebuild ==
    (call.op \notin {"new", "input"} /\ call.rebuilt)
        => \E i, j \in 1..Len(StepsAfterRebuild(call.steps)) :
              /\ i < j
              /\ StepsAfterRebuild(call.steps)[i] = "trigger_screen_lines"
              /\ StepsAfterRebuild(call.steps)[j] = "trigger_folding_items"
              /\ \A k \in (i + 1)..Len(StepsAfterRebuild(call.steps)) :
                    StepsAfterRebuild(call.steps)[k] # "trigger_screen_lines"

\* The lines new_text_layout merges into the unit of a line: the chain of
\* collapsed_line_col values of its loop, followed for at most fuel steps.
RECURSIVE MergedLines(_, _, _)
MergedLines(d, collapsed_line_col, fuel) ==
    IF ~IsSome(collapsed_line_col) \/ fuel = 0 THEN <<>>
    ELSE <<collapsed_line_col[1]>>
            \o MergedLines(d, folded_line(phantom_text(d, collapsed_line_col[1])),
                           fuel - 1)

\* The chain of the unit that starts at a line of the current document.
ChainOf(line) ==
    MergedLines(Self, folded_line(phantom_text(Self, line)),
                num_lines(buffer.text) + 1)

(* C30: a rebuild ends for every buffer and fold state: the outer loop starts
   at line 0, each iteration produces a folded line that ends at or after the
   line it started from and the next iteration starts one line after that end,
   until the last line is passed; the chain of lines merged into a unit is
   strictly increasing from the unit's first line, ends within the buffer's
   lines and ends on the unit's last line. *)
C30_LoopsAdvance ==
    call.rebuilt =>
        /\ Len(origin_folded_lines) >= 1
        /\ origin_folded_lines[1].origin_line_start = 0
        /\ origin_folded_lines[Len(origin_folded_lines)].origin_line_end
              >= buffer_last_line(buffer.text)
        /\ \A f \in 1..Len(origin_folded_lines) :
             \A chain \in {ChainOf(origin_folded_lines[f].origin_line_start)} :
                /\ origin_folded_lines[f].origin_line_end
                      >= origin_folded_lines[f].origin_line_start
                /\ f > 1 => origin_folded_lines[f].origin_line_start
                              = origin_folded_lines[f - 1].origin_line_end + 1
                /\ Len(chain) <= buffer_last_line(buffer.text)
                /\ \A i \in 1..Len(chain) :
                      /\ chain[i] <= buffer_last_line(buffer.text)
                      /\ chain[i] > (IF i = 1
                                     THEN origin_folded_lines[f].origin_line_start
                                     ELSE chain[i - 1])
                /\ chain # <<>> => chain[Len(chain)]
                                     = origin_folded_lines[f].origin_line_end

(* A rebuild under two collapsed ranges, nested or overlapping or one chained
   to the other, with a unit that merges two lines or more and ends on the
   buffer's last line. *)
C30_Witness ==
    /\ call.op = "update_lines"
    /\ call.rebuilt
    /\ Cardinality({i \in 1..Len(folding_ranges) :
                        folding_ranges[i].status = Collapsed}) >= 2
    /\ \E f \in 1..Len(origin_folded_lines) :
          /\ Len(ChainOf(origin_folded_lines[f].origin_line_start)) >= 2
          /\ origin_folded_lines[f].origin_line_end
                = buffer_last_line(buffer.text)

====
